---- MODULE Spec2Model ----
(***************************************************************************)
(* Layout tree of the way-cooler compositor (src/layout/core/tree.rs).     *)
(*                                                                         *)
(* The LayoutTree operations are translated from tree.rs.  The graph store *)
(* they call (InnerTree), the workspace initialiser, the fullscreen list   *)
(* of a workspace and the focus successor rule live in other files of the  *)
(* repository; they are modelled from the specification (sections 4.1,     *)
(* 4.3 and 9) and from the way tree.rs and its tests use them.             *)
(*                                                                         *)
(* A tree value t is a record                                              *)
(*   nodes    : NodeIndex -> Container     (the live node slots)           *)
(*   edges    : child NodeIndex -> [parent, order, active]                 *)
(*   active   : the active_container field (None or a NodeIndex)           *)
(*   next     : the next fresh NodeIndex / Uuid                            *)
(*   panicked : TRUE once a panic!/expect/assert of the code has fired     *)
(* A NodeIndex also stands for the node's Uuid: both are assigned at       *)
(* creation, stable, and never reused.                                     *)
(*                                                                         *)
(* edge and dirs hold a ResizeEdge mask and a list of Directions, the      *)
(* arguments and results of Direction's conversions.  frame is the call    *)
(* of a recursive operation that is under way, for the specification that  *)
(* follows the recursion one invocation at a time.                         *)
(***************************************************************************)
EXTENDS Integers, Sequences, FiniteSets, TLC

VARIABLES nodes, edges, active_container, next_ix, panicked, last, edge, dirs,
          frame

vars ==
  <<nodes, edges, active_container, next_ix, panicked, last, edge, dirs, frame>>

\* Bounds of the model: node indices ever allocated, output handles, view
\* handles, workspace names, and entries of all fullscreen lists together.
MaxNodes == 6
MaxOutputHandle == 1
MaxViewHandle == 1
MaxWorkspaceName == 2
MaxFullscreen == 1
\* length of the lists of directions
MaxDirs == 3

\* Option::None for a NodeIndex, a handle or a Uuid.
None == -1

----------------------------------------------------------------------------
(* Container model *)

ContainerTypes == {"Root", "Output", "Workspace", "Container", "View"}

Layouts == {"Horizontal", "Vertical", "Tabbed", "Stacked"}

\* Option<MaybeBackground> of an Output: empty, being set up, or complete
\* with the handle of the background's view
NoBackground == [state |-> "None", handle |-> None]

IncompleteBackground == [state |-> "Incomplete", handle |-> None]

CompleteBackground(handle) == [state |-> "Complete", handle |-> handle]

Blank ==
  [type |-> "Root", handle |-> None, name |-> "", layout |-> "",
   fullscreen_c |-> <<>>, floating |-> FALSE,
   background |-> NoBackground, bar |-> None]

new_view(handle) == [Blank EXCEPT !.type = "View", !.handle = handle]

new_output(handle) == [Blank EXCEPT !.type = "Output", !.handle = handle]

new_workspace(name) == [Blank EXCEPT !.type = "Workspace", !.name = name]

new_container(layout) == [Blank EXCEPT !.type = "Container", !.layout = layout]

\* u32::to_string of an output handle (tree.rs:473): decimal digits.
DigitChar(d) ==
  CASE d = 0 -> "0" [] d = 1 -> "1" [] d = 2 -> "2" [] d = 3 -> "3"
    [] d = 4 -> "4" [] d = 5 -> "5" [] d = 6 -> "6" [] d = 7 -> "7"
    [] d = 8 -> "8" [] OTHER -> "9"

RECURSIVE to_string(_)
to_string(n) ==
  IF n < 10 THEN DigitChar(n) ELSE to_string(n \div 10) \o DigitChar(n % 10)

----------------------------------------------------------------------------
(* Results: Ok(a) or Err(kind(a, b)) *)

Ok(a) == [tag |-> "Ok", err |-> "", a |-> a, b |-> None]

Err(kind, a, b) == [tag |-> "Err", err |-> kind, a |-> a, b |-> b]

IsOk(r) == r.tag = "Ok"

----------------------------------------------------------------------------
(* InnerTree: the graph store *)

root_ix == 0

Restrict(f, S) == [x \in S |-> f[x]]

Live(t, n) == n \in DOMAIN t.nodes

lookup_id(t, id) == IF id \in DOMAIN t.nodes THEN id ELSE None

has_parent(t, n) == n \in DOMAIN t.edges

parent_of(t, n) == IF n \in DOMAIN t.edges THEN t.edges[n].parent ELSE None

ChildSet(t, p) == {c \in DOMAIN t.edges : t.edges[c].parent = p}

RECURSIVE SortByOrder(_, _)
SortByOrder(t, S) ==
  IF S = {} THEN <<>>
  ELSE LET m == CHOOSE c \in S :
                  \A d \in S : \/ t.edges[c].order < t.edges[d].order
                               \/ (t.edges[c].order = t.edges[d].order /\ c <= d)
       IN <<m>> \o SortByOrder(t, S \ {m})

\* children ordered by their edge's order weight, ascending
children_of(t, p) == SortByOrder(t, ChildSet(t, p))

IndexOf(seq, x) == CHOOSE i \in 1..Len(seq) : seq[i] = x

get_edge_weight_between(t, p, c) ==
  IF c \in DOMAIN t.edges /\ t.edges[c].parent = p THEN t.edges[c].order ELSE None

largest_child(t, p) ==
  LET S == ChildSet(t, p)
  IN IF S = {} THEN 0
     ELSE LET m == CHOOSE c \in S : \A d \in S : t.edges[d].order <= t.edges[c].order
          IN t.edges[m].order

\* give the children listed in seq the orders 1..Len(seq)
SetOrders(t, seq) ==
  [t EXCEPT !.edges =
     [c \in DOMAIN t.edges |->
        IF \E i \in 1..Len(seq) : seq[i] = c
        THEN [t.edges[c] EXCEPT !.order = IndexOf(seq, c)]
        ELSE t.edges[c]]]

normalize_edge_weights(t, p) == SetOrders(t, children_of(t, p))

\* appends node as the last child of parent; with set_active the new edge
\* becomes the parent's only active edge
add_child(t, parent, node, set_active) ==
  LET ix == t.next
      e == [parent |-> parent, order |-> largest_child(t, parent) + 1,
            active |-> set_active]
  IN [t EXCEPT
        !.nodes = [n \in DOMAIN t.nodes \cup {ix} |->
                     IF n = ix THEN node ELSE t.nodes[n]],
        !.edges = [c \in DOMAIN t.edges \cup {ix} |->
                     IF c = ix THEN e
                     ELSE IF set_active /\ t.edges[c].parent = parent
                          THEN [t.edges[c] EXCEPT !.active = FALSE]
                          ELSE t.edges[c]],
        !.next = ix + 1]

\* removes the node and its incident edges (not its descendants), then
\* renumbers the former siblings
remove(t, n) ==
  IF ~Live(t, n) THEN t
  ELSE LET p == parent_of(t, n)
           t1 == [t EXCEPT
                    !.nodes = Restrict(t.nodes, DOMAIN t.nodes \ {n}),
                    !.edges = Restrict(t.edges,
                                {c \in DOMAIN t.edges :
                                   c # n /\ t.edges[c].parent # n})]
       IN IF p = None THEN t1 ELSE normalize_edge_weights(t1, p)

\* reparents the node as the last, inactive child of new_parent; the former
\* siblings keep their orders until the next renumbering of their parent
move_node(t, n, new_parent) ==
  LET t0 == [t EXCEPT !.edges = Restrict(t.edges, DOMAIN t.edges \ {n})]
      e == [parent |-> new_parent, order |-> largest_child(t0, new_parent) + 1,
            active |-> FALSE]
  IN [t0 EXCEPT !.edges = [c \in DOMAIN t0.edges \cup {n} |->
                             IF c = n THEN e ELSE t0.edges[c]]]

Without(seq, x) == SelectSeq(seq, LAMBDA y : y # x)

InsertAt(seq, i, x) == SubSeq(seq, 1, i - 1) \o <<x>> \o SubSeq(seq, i, Len(seq))

\* moves the node to position pos among its siblings and renumbers them
set_child_pos(t, n, pos) ==
  LET p == parent_of(t, n)
      others == Without(children_of(t, p), n)
      k == Len(others) + 1
      q == IF pos < 1 THEN 1 ELSE IF pos > k THEN k ELSE pos
  IN IF p = None THEN t ELSE SetOrders(t, InsertAt(others, q, n))

RECURSIVE ancestor_of_type(_, _, _)
ancestor_of_type(t, n, type) ==
  LET p == parent_of(t, n)
  IN IF p = None THEN None
     ELSE IF t.nodes[p].type = type THEN p
     ELSE ancestor_of_type(t, p, type)

\* depth-first, a node before its own descendants
RECURSIVE all_descendants_of(_, _)
RECURSIVE DescendantsOfEach(_, _)
all_descendants_of(t, n) == DescendantsOfEach(t, children_of(t, n))

DescendantsOfEach(t, seq) ==
  IF seq = <<>> THEN <<>>
  ELSE <<Head(seq)>> \o all_descendants_of(t, Head(seq))
         \o DescendantsOfEach(t, Tail(seq))

SeqToSet(seq) == {seq[i] : i \in 1..Len(seq)}

\* the first element of seq that is in S, or None
FirstIn(seq, S) ==
  IF \E i \in 1..Len(seq) : seq[i] \in S
  THEN seq[CHOOSE i \in 1..Len(seq) :
             seq[i] \in S /\ \A j \in 1..(i - 1) : seq[j] \notin S]
  ELSE None

descendant_of_type(t, n, type) ==
  FirstIn(all_descendants_of(t, n),
          {d \in DOMAIN t.nodes : t.nodes[d].type = type})

descendant_with_handle(t, n, handle) ==
  FirstIn(all_descendants_of(t, n),
          {d \in DOMAIN t.nodes :
             t.nodes[d].type = "View" /\ t.nodes[d].handle = handle})

lookup_view(t, handle) == descendant_with_handle(t, root_ix, handle)

is_root_container(t, n) ==
  /\ Live(t, n)
  /\ t.nodes[n].type = "Container"
  /\ has_parent(t, n)
  /\ t.nodes[parent_of(t, n)].type = "Workspace"

can_remove_empty_parent(t, n) ==
  /\ Live(t, n)
  /\ t.nodes[n].type = "Container"
  /\ ChildSet(t, n) = {}
  /\ ~(has_parent(t, n) /\ t.nodes[parent_of(t, n)].type = "Workspace")

ActiveChild(t, n) ==
  LET S == {c \in ChildSet(t, n) : t.edges[c].active}
  IN IF S = {} THEN None ELSE CHOOSE c \in S : \A d \in S : c <= d

\* descends along active edges until a node of the type is reached
RECURSIVE follow_path_until(_, _, _)
follow_path_until(t, n, type) ==
  IF t.nodes[n].type = type THEN n
  ELSE IF ActiveChild(t, n) = None THEN None
  ELSE follow_path_until(t, ActiveChild(t, n), type)

\* Container::update_fullscreen_c on a workspace: push or drop the id
update_fullscreen_c(t, ws, id, toggle) ==
  LET fs == t.nodes[ws].fullscreen_c
  IN [t EXCEPT !.nodes[ws].fullscreen_c =
        IF toggle
        THEN (IF id \in SeqToSet(fs) THEN fs ELSE Append(fs, id))
        ELSE Without(fs, id)]

Panic(t) == [t EXCEPT !.panicked = TRUE]

----------------------------------------------------------------------------
(* Collaborators of LayoutTree outside tree.rs *)

\* focus_on(id): asks the windowing system to focus the client; the tree is
\* not changed
focus_on(t, id) == t

\* set_borders(node, mode): recolours the borders; the tree is not changed
set_borders(t, n, mode) == t

----------------------------------------------------------------------------
(* LayoutTree::validate *)

\* the active container is in the tree and of the right type
ValidActive(t) ==
  \/ t.active = None
  \/ /\ Live(t, t.active)
     /\ t.nodes[t.active].type \in {"View", "Container"}
     /\ ancestor_of_type(t, t.active, "Root") # None

\* workspace names are unique across outputs
ValidNames(t) ==
  LET W == UNION {ChildSet(t, o) : o \in ChildSet(t, root_ix)}
  IN \A w1, w2 \in W : w1 # w2 => t.nodes[w1].name # t.nodes[w2].name

\* every output has a workspace, every workspace a child, and below a
\* workspace there are only views and non-empty or root containers
ValidWorkspaces(t) ==
  \A o \in ChildSet(t, root_ix) :
    /\ ChildSet(t, o) # {}
    /\ \A w \in ChildSet(t, o) :
         /\ ChildSet(t, w) # {}
         /\ \A c \in SeqToSet(all_descendants_of(t, w)) :
              /\ t.nodes[c].type \in {"Container", "View"}
              /\ t.nodes[c].type = "Container" =>
                   /\ ~(ChildSet(t, c) = {}
                        /\ t.nodes[parent_of(t, c)].type # "Workspace")
                   /\ ~can_remove_empty_parent(t, c)

\* edge weights of the children of every node of the tree are 1, 2, 3, ...
ValidEdgeCount(t) ==
  \A p \in {root_ix} \cup SeqToSet(all_descendants_of(t, root_ix)) :
    LET ch == children_of(t, p)
    IN \A i \in 1..Len(ch) : t.edges[ch[i]].order = i

validate(t) ==
  IF t.panicked THEN t
  ELSE IF /\ ValidActive(t)
          /\ ValidNames(t)
          /\ ValidWorkspaces(t)
          /\ ValidEdgeCount(t)
       THEN t
       ELSE Panic(t)

----------------------------------------------------------------------------
(* LayoutTree: the active container *)

\* in_fullscreen_workspace returning the oldest entry of the fullscreen list
in_fullscreen_workspace_first(t, id) ==
  IF lookup_id(t, id) = None THEN Err("NodeNotFound", id, None)
  ELSE LET workspace_ix == ancestor_of_type(t, id, "Workspace")
       IN IF workspace_ix = None THEN Err("PetGraph", id, None)
          ELSE LET children == t.nodes[workspace_ix].fullscreen_c
               IN IF children = <<>> THEN Ok(None)
                  ELSE Ok(children[1])

in_fullscreen_workspace(t, id) ==
  IF lookup_id(t, id) = None THEN Err("NodeNotFound", id, None)
  ELSE LET workspace_ix == ancestor_of_type(t, id, "Workspace")
       IN IF workspace_ix = None THEN Err("PetGraph", id, None)
          ELSE LET children == t.nodes[workspace_ix].fullscreen_c
               IN IF children = <<>> THEN Ok(None)
                  ELSE Ok(children[Len(children)])

set_active_node(t, node_ix) ==
  IF ~Live(t, node_ix) THEN [t |-> Panic(t), r |-> Err("Panic", node_ix, None)]
  ELSE
    LET fs == in_fullscreen_workspace(t, node_ix)
        t1 == [t EXCEPT !.active = node_ix]
    IN IF ~IsOk(fs) THEN [t |-> t, r |-> fs]
       ELSE IF fs.a # None /\ fs.a # node_ix
         THEN [t |-> t, r |-> Err("BlockedByFullscreen", node_ix, fs.a)]
       ELSE IF t.nodes[node_ix].type = "View"
         THEN [t |-> set_borders(focus_on(t1, node_ix), node_ix, "Active"),
               r |-> Ok(None)]
       ELSE IF t.nodes[node_ix].type = "Container"
         THEN [t |-> set_borders(t1, node_ix, "Active"), r |-> Ok(None)]
       ELSE [t |-> t1, r |-> Err("UuidWrongType", node_ix, None)]

set_active_view(t, handle) ==
  LET node_ix == descendant_with_handle(t, root_ix, handle)
  IN IF node_ix # None THEN set_active_node(t, node_ix)
     ELSE [t |-> t, r |-> Err("ViewNotFound", handle, None)]

set_active_container(t, id) ==
  LET node_ix == lookup_id(t, id)
  IN IF node_ix = None THEN [t |-> t, r |-> Err("NodeNotFound", id, None)]
     ELSE set_active_node(t, node_ix)

unset_active_container(t) == [t EXCEPT !.active = None]

RECURSIVE RootContainerAbove(_, _)
RootContainerAbove(t, cur_ix) ==
  LET parent_ix == parent_of(t, cur_ix)
  IN IF parent_ix = None THEN None
     ELSE IF /\ t.nodes[cur_ix].type = "Container"
             /\ t.nodes[parent_ix].type = "Workspace"
          THEN cur_ix
          ELSE RootContainerAbove(t, parent_ix)

root_container_ix(t) ==
  IF t.active # None THEN RootContainerAbove(t, t.active)
  ELSE follow_path_until(t, root_ix, "Container")

active_ix_of(t, ctype) ==
  IF t.active = None THEN None
  ELSE IF t.nodes[t.active].type = ctype THEN t.active
  ELSE ancestor_of_type(t, t.active, ctype)

active_is_root(t) == t.active # None /\ is_root_container(t, t.active)

\* the result of set_active_node that add_view and add_container let pass
Swallowed(r) == IsOk(r) \/ r.err = "BlockedByFullscreen"

----------------------------------------------------------------------------
(* Focus successor after a removal (layout/actions/focus.rs) *)

\* the nearest of n and its Container ancestors that holds a View, or None
RECURSIVE ClimbToView(_, _)
ClimbToView(t, n) ==
  IF t.nodes[n].type # "Container" THEN None
  ELSE IF descendant_of_type(t, n, "View") # None
       THEN descendant_of_type(t, n, "View")
       ELSE IF parent_of(t, n) = None THEN None
       ELSE ClimbToView(t, parent_of(t, n))

focus_on_next_container(t, parent_ix) ==
  IF ~Live(t, parent_ix) THEN t
  ELSE
    LET view_ix == ClimbToView(t, parent_ix)
        workspace_ix == IF t.nodes[parent_ix].type = "Workspace" THEN parent_ix
                        ELSE ancestor_of_type(t, parent_ix, "Workspace")
    IN IF view_ix # None THEN set_active_node(t, view_ix).t
       ELSE IF workspace_ix = None \/ ChildSet(t, workspace_ix) = {} THEN t
       ELSE set_active_node(t, children_of(t, workspace_ix)[1]).t

----------------------------------------------------------------------------
(* LayoutTree: insertions *)

PanicResult(t) == [t |-> Panic(t), r |-> Err("Panic", None, None)]

\* add_view handing BlockedByFullscreen on to its caller
add_view_reports_blocked(t, view) ==
  IF t.active = None
  THEN [t |-> validate(t), r |-> Err("NoActiveContainer", None, None)]
  ELSE
    LET parent_ix == parent_of(t, t.active)
        prev_pos == get_edge_weight_between(t, parent_ix, t.active) + 1
        active_ix == IF t.nodes[t.active].type = "View" THEN parent_ix
                     ELSE t.active
        view_ix == t.next
        t1 == add_child(t, active_ix, new_view(view), TRUE)
        t2 == validate(set_child_pos(t1, view_ix, prev_pos))
        s == set_active_node(t2, view_ix)
    IN IF parent_ix = None THEN [t |-> t, r |-> Err("PetGraph", t.active, None)]
       ELSE IF t.nodes[active_ix].type # "Container"
         THEN [t |-> t, r |-> Err("Container", active_ix, None)]
       ELSE IF t2.panicked THEN PanicResult(t2)
       ELSE IF IsOk(s.r) THEN [t |-> s.t, r |-> Ok(view_ix)]
       ELSE s

\* add_view that leaves the new view where add_child put it, at the end
add_view_appends(t, view) ==
  IF t.active = None
  THEN [t |-> validate(t), r |-> Err("NoActiveContainer", None, None)]
  ELSE
    LET parent_ix == parent_of(t, t.active)
        active_ix == IF t.nodes[t.active].type = "View" THEN parent_ix
                     ELSE t.active
        view_ix == t.next
        t1 == add_child(t, active_ix, new_view(view), TRUE)
        t2 == validate(t1)
        s == set_active_node(t2, view_ix)
    IN IF parent_ix = None THEN [t |-> t, r |-> Err("PetGraph", t.active, None)]
       ELSE IF t.nodes[active_ix].type # "Container"
         THEN [t |-> t, r |-> Err("Container", active_ix, None)]
       ELSE IF t2.panicked THEN PanicResult(t2)
       ELSE IF Swallowed(s.r) THEN [t |-> s.t, r |-> Ok(view_ix)]
       ELSE s

add_view(t, view) ==
  IF t.active = None
  THEN [t |-> validate(t), r |-> Err("NoActiveContainer", None, None)]
  ELSE
    LET parent_ix == parent_of(t, t.active)
        prev_pos == get_edge_weight_between(t, parent_ix, t.active) + 1
        active_ix == IF t.nodes[t.active].type = "View" THEN parent_ix
                     ELSE t.active
        view_ix == t.next
        t1 == add_child(t, active_ix, new_view(view), TRUE)
        t2 == validate(set_child_pos(t1, view_ix, prev_pos))
        s == set_active_node(t2, view_ix)
    IN IF parent_ix = None THEN [t |-> t, r |-> Err("PetGraph", t.active, None)]
       ELSE IF t.nodes[active_ix].type # "Container"
         THEN [t |-> t, r |-> Err("Container", active_ix, None)]
       ELSE IF t2.panicked THEN PanicResult(t2)
       ELSE IF Swallowed(s.r) THEN [t |-> s.t, r |-> Ok(view_ix)]
       ELSE s

\* add_floating_view attaching the view to the active workspace itself
add_floating_view_under_workspace(t, view) ==
  LET workspace_ix == active_ix_of(t, "Workspace")
      view_ix == t.next
      t1 == add_child(t, workspace_ix, new_view(view), FALSE)
  IN IF workspace_ix # None
     THEN [t |-> [t1 EXCEPT !.nodes[view_ix].floating = TRUE], r |-> Ok(view_ix)]
     ELSE [t |-> validate(t), r |-> Err("NoActiveContainer", None, None)]

add_floating_view(t, view) ==
  LET root_c == root_container_ix(t)
      view_ix == t.next
      t1 == add_child(t, root_c, new_view(view), FALSE)
  IN IF root_c # None
     THEN [t |-> [t1 EXCEPT !.nodes[view_ix].floating = TRUE], r |-> Ok(view_ix)]
     ELSE [t |-> validate(t), r |-> Err("NoActiveContainer", None, None)]

\* add_container placing the new container first among its siblings
add_container_first_pos(t, container, child_ix) ==
  LET parent_ix == parent_of(t, child_ix)
      new_container_ix == t.next
      t1 == add_child(t, parent_ix, container, FALSE)
      t2 == move_node(t1, child_ix, new_container_ix)
      t3 == set_child_pos(t2, new_container_ix, 1)
      s == set_active_node(t3, new_container_ix)
      t4 == validate(s.t)
  IN IF parent_ix = None THEN PanicResult(t)
     ELSE IF ~Swallowed(s.r) THEN s
     ELSE IF t4.panicked THEN PanicResult(t4)
     ELSE [t |-> t4, r |-> Ok(None)]

\* add_container handing BlockedByFullscreen on to its caller
add_container_reports_blocked(t, container, child_ix) ==
  LET parent_ix == parent_of(t, child_ix)
      old_weight == get_edge_weight_between(t, parent_ix, child_ix)
      new_container_ix == t.next
      t1 == add_child(t, parent_ix, container, FALSE)
      t2 == move_node(t1, child_ix, new_container_ix)
      t3 == set_child_pos(t2, new_container_ix, old_weight)
      s == set_active_node(t3, new_container_ix)
      t4 == validate(s.t)
  IN IF parent_ix = None THEN PanicResult(t)
     ELSE IF ~IsOk(s.r) THEN s
     ELSE IF t4.panicked THEN PanicResult(t4)
     ELSE [t |-> t4, r |-> Ok(None)]

\* add_container without the set_child_pos call
add_container_keeps_last_pos(t, container, child_ix) ==
  LET parent_ix == parent_of(t, child_ix)
      new_container_ix == t.next
      t1 == add_child(t, parent_ix, container, FALSE)
      t2 == move_node(t1, child_ix, new_container_ix)
      s == set_active_node(t2, new_container_ix)
      t4 == validate(s.t)
  IN IF parent_ix = None THEN PanicResult(t)
     ELSE IF ~Swallowed(s.r) THEN s
     ELSE IF t4.panicked THEN PanicResult(t4)
     ELSE [t |-> t4, r |-> Ok(None)]

add_container(t, container, child_ix) ==
  LET parent_ix == parent_of(t, child_ix)
      old_weight == get_edge_weight_between(t, parent_ix, child_ix)
      new_container_ix == t.next
      t1 == add_child(t, parent_ix, container, FALSE)
      t2 == move_node(t1, child_ix, new_container_ix)
      t3 == set_child_pos(t2, new_container_ix, old_weight)
      s == set_active_node(t3, new_container_ix)
      t4 == validate(s.t)
  IN IF parent_ix = None THEN PanicResult(t)
     ELSE IF ~Swallowed(s.r) THEN s
     ELSE IF t4.panicked THEN PanicResult(t4)
     ELSE [t |-> t4, r |-> Ok(None)]

\* creates the workspace and its root container under the output; returns
\* the root container's index (layout/actions/workspace.rs)
init_workspace(t, name, output_ix) ==
  LET workspace_ix == t.next
      t1 == add_child(t, output_ix, new_workspace(name), FALSE)
      container_ix == t1.next
      t2 == add_child(t1, workspace_ix, new_container("Horizontal"), FALSE)
  IN [t |-> t2, r |-> Ok(container_ix)]

\* add_output comparing the handle with that of the first output only
add_output_checks_first_output(t, output) ==
  LET output_ix == t.next
      t1 == add_child(t, root_ix, new_output(output), TRUE)
      w == init_workspace(t1, to_string(output), output_ix)
      t2 == validate([w.t EXCEPT !.active = w.r.a])
      outputs == children_of(t, root_ix)
      stop == FirstIn(SubSeq(outputs, 1, IF Len(outputs) > 1 THEN 1 ELSE Len(outputs)),
                      {o \in DOMAIN t.nodes : t.nodes[o].type # "Output"
                                               \/ t.nodes[o].handle = output})
  IN IF stop # None /\ t.nodes[stop].type # "Output" THEN PanicResult(t)
     ELSE IF stop # None
       THEN [t |-> t, r |-> Err("OutputExists", output, None)]
     ELSE IF t2.panicked THEN PanicResult(t2)
     ELSE [t |-> t2, r |-> Ok(None)]

\* add_output leaving the active container where it was
add_output_keeps_active(t, output) ==
  LET output_ix == t.next
      t1 == add_child(t, root_ix, new_output(output), TRUE)
      w == init_workspace(t1, to_string(output), output_ix)
      t2 == validate(w.t)
      stop == FirstIn(children_of(t, root_ix),
                      {o \in DOMAIN t.nodes : t.nodes[o].type # "Output"
                                               \/ t.nodes[o].handle = output})
  IN IF stop # None /\ t.nodes[stop].type # "Output" THEN PanicResult(t)
     ELSE IF stop # None
       THEN [t |-> t, r |-> Err("OutputExists", output, None)]
     ELSE IF t2.panicked THEN PanicResult(t2)
     ELSE [t |-> t2, r |-> Ok(None)]

add_output(t, output) ==
  LET output_ix == t.next
      t1 == add_child(t, root_ix, new_output(output), TRUE)
      w == init_workspace(t1, to_string(output), output_ix)
      t2 == validate([w.t EXCEPT !.active = w.r.a])
      stop == FirstIn(children_of(t, root_ix),
                      {o \in DOMAIN t.nodes : t.nodes[o].type # "Output"
                                               \/ t.nodes[o].handle = output})
  IN IF stop # None /\ t.nodes[stop].type # "Output" THEN PanicResult(t)
     ELSE IF stop # None
       THEN [t |-> t, r |-> Err("OutputExists", output, None)]
     ELSE IF t2.panicked THEN PanicResult(t2)
     ELSE [t |-> t2, r |-> Ok(None)]

----------------------------------------------------------------------------
(* LayoutTree: removals *)

RECURSIVE remove_view_or_container(_, _)
\* remove_view_or_container without the check for the root container
remove_view_or_container_any(t, node_ix) ==
  IF ~Live(t, node_ix)
  THEN [t |-> t, r |-> Err("NodeWasRemoved", node_ix, None)]
  ELSE IF t.nodes[node_ix].type \notin {"View", "Container"}
  THEN [t |-> t, r |-> Err("UuidWrongType", node_ix, None)]
  ELSE
    LET workspace_ix == ancestor_of_type(t, node_ix, "Workspace")
        c == ancestor_of_type(t, node_ix, "Container")
        parent_ix == IF c = None THEN workspace_ix ELSE c
        t1 == remove(t, node_ix)
        t2 == IF t1.active = node_ix THEN [t1 EXCEPT !.active = None] ELSE t1
        t3 == update_fullscreen_c(t2, workspace_ix, node_ix, FALSE)
        inner == IF can_remove_empty_parent(t3, parent_ix)
                 THEN remove_view_or_container(t3, parent_ix)
                 ELSE [t |-> t3, r |-> Ok(None)]
        t4 == validate(inner.t)
    IN IF workspace_ix = None THEN PanicResult(t)
       ELSE IF t3.nodes[parent_ix].type = "Container"
         THEN IF inner.t.panicked \/ ~IsOk(inner.r) THEN inner
              ELSE IF t4.panicked THEN PanicResult(t4)
              ELSE [t |-> focus_on_next_container(t4, parent_ix),
                    r |-> Ok(node_ix)]
       ELSE [t |-> focus_on_next_container(t3, parent_ix), r |-> Ok(node_ix)]

\* remove_view_or_container leaving the fullscreen list of the workspace alone
remove_view_or_container_keeps_fullscreen(t, node_ix) ==
  IF is_root_container(t, node_ix)
  THEN [t |-> t, r |-> Err("InvalidOperationOnRootContainer", node_ix, None)]
  ELSE IF ~Live(t, node_ix)
  THEN [t |-> t, r |-> Err("NodeWasRemoved", node_ix, None)]
  ELSE IF t.nodes[node_ix].type \notin {"View", "Container"}
  THEN [t |-> t, r |-> Err("UuidWrongType", node_ix, None)]
  ELSE
    LET workspace_ix == ancestor_of_type(t, node_ix, "Workspace")
        c == ancestor_of_type(t, node_ix, "Container")
        parent_ix == IF c = None THEN workspace_ix ELSE c
        t1 == remove(t, node_ix)
        t3 == IF t1.active = node_ix THEN [t1 EXCEPT !.active = None] ELSE t1
        inner == IF can_remove_empty_parent(t3, parent_ix)
                 THEN remove_view_or_container(t3, parent_ix)
                 ELSE [t |-> t3, r |-> Ok(None)]
        t4 == validate(inner.t)
    IN IF workspace_ix = None THEN PanicResult(t)
       ELSE IF t3.nodes[parent_ix].type = "Container"
         THEN IF inner.t.panicked \/ ~IsOk(inner.r) THEN inner
              ELSE IF t4.panicked THEN PanicResult(t4)
              ELSE [t |-> focus_on_next_container(t4, parent_ix),
                    r |-> Ok(node_ix)]
       ELSE [t |-> focus_on_next_container(t3, parent_ix), r |-> Ok(node_ix)]

\* remove_view_or_container without the clean-up of the emptied parent
remove_view_or_container_keeps_parent(t, node_ix) ==
  IF is_root_container(t, node_ix)
  THEN [t |-> t, r |-> Err("InvalidOperationOnRootContainer", node_ix, None)]
  ELSE IF ~Live(t, node_ix)
  THEN [t |-> t, r |-> Err("NodeWasRemoved", node_ix, None)]
  ELSE IF t.nodes[node_ix].type \notin {"View", "Container"}
  THEN [t |-> t, r |-> Err("UuidWrongType", node_ix, None)]
  ELSE
    LET workspace_ix == ancestor_of_type(t, node_ix, "Workspace")
        c == ancestor_of_type(t, node_ix, "Container")
        parent_ix == IF c = None THEN workspace_ix ELSE c
        t1 == remove(t, node_ix)
        t2 == IF t1.active = node_ix THEN [t1 EXCEPT !.active = None] ELSE t1
        t3 == update_fullscreen_c(t2, workspace_ix, node_ix, FALSE)
    IN IF workspace_ix = None THEN PanicResult(t)
       ELSE [t |-> focus_on_next_container(t3, parent_ix), r |-> Ok(node_ix)]

remove_view_or_container(t, node_ix) ==
  IF is_root_container(t, node_ix)
  THEN [t |-> t, r |-> Err("InvalidOperationOnRootContainer", node_ix, None)]
  ELSE IF ~Live(t, node_ix)
  THEN [t |-> t, r |-> Err("NodeWasRemoved", node_ix, None)]
  ELSE IF t.nodes[node_ix].type \notin {"View", "Container"}
  THEN [t |-> t, r |-> Err("UuidWrongType", node_ix, None)]
  ELSE
    LET workspace_ix == ancestor_of_type(t, node_ix, "Workspace")
        c == ancestor_of_type(t, node_ix, "Container")
        parent_ix == IF c = None THEN workspace_ix ELSE c
        t1 == remove(t, node_ix)
        t2 == IF t1.active = node_ix THEN [t1 EXCEPT !.active = None] ELSE t1
        t3 == update_fullscreen_c(t2, workspace_ix, node_ix, FALSE)
        inner == IF can_remove_empty_parent(t3, parent_ix)
                 THEN remove_view_or_container(t3, parent_ix)
                 ELSE [t |-> t3, r |-> Ok(None)]
        t4 == validate(inner.t)
    IN IF workspace_ix = None THEN PanicResult(t)
       ELSE IF t3.nodes[parent_ix].type = "Container"
         THEN IF inner.t.panicked \/ ~IsOk(inner.r) THEN inner
              ELSE IF t4.panicked THEN PanicResult(t4)
              ELSE [t |-> focus_on_next_container(t4, parent_ix),
                    r |-> Ok(node_ix)]
       ELSE [t |-> focus_on_next_container(t3, parent_ix), r |-> Ok(node_ix)]

\* the loop of remove_view over the outputs: a complete background and a
\* bar that is the view are taken out of their slots
invalidate_overlays(t, view) ==
  [t EXCEPT !.nodes =
     [n \in DOMAIN t.nodes |->
        IF n \in ChildSet(t, root_ix)
        THEN [t.nodes[n] EXCEPT
                !.background = IF @ = CompleteBackground(view) THEN NoBackground ELSE @,
                !.bar = IF @ = view THEN None ELSE @]
        ELSE t.nodes[n]]]

\* remove_view removing the active container in place of the view it found
remove_view_takes_active(t, view) ==
  LET view_ix == descendant_with_handle(t, root_ix, view)
      s == remove_view_or_container(t, t.active)
      t1 == validate(s.t)
  IN IF view_ix # None
     THEN IF s.t.panicked \/ ~IsOk(s.r) THEN PanicResult(s.t)
          ELSE IF t1.panicked THEN PanicResult(t1)
          ELSE [t |-> t1, r |-> s.r]
     ELSE IF \E o \in ChildSet(t, root_ix) : t.nodes[o].type # "Output"
       THEN PanicResult(t)
     ELSE LET t2 == validate(invalidate_overlays(t, view))
          IN IF t2.panicked THEN PanicResult(t2)
             ELSE [t |-> t2, r |-> Err("ViewNotFound", view, None)]

remove_view(t, view) ==
  LET view_ix == descendant_with_handle(t, root_ix, view)
      s == remove_view_or_container(t, view_ix)
      t1 == validate(s.t)
  IN IF view_ix # None
     THEN IF s.t.panicked \/ ~IsOk(s.r) THEN PanicResult(s.t)
          ELSE IF t1.panicked THEN PanicResult(t1)
          ELSE [t |-> t1, r |-> s.r]
     ELSE IF \E o \in ChildSet(t, root_ix) : t.nodes[o].type # "Output"
       THEN PanicResult(t)
     ELSE LET t2 == validate(invalidate_overlays(t, view))
          IN IF t2.panicked THEN PanicResult(t2)
             ELSE [t |-> t2, r |-> Err("ViewNotFound", view, None)]

remove_active(t) ==
  IF t.active # None THEN remove_view_or_container(t, t.active)
  ELSE [t |-> t, r |-> Err("NoActiveContainer", None, None)]

\* the loop of remove_container over the remaining nodes.  Its first
\* statement, trace!(.., self.tree[node_ix]), indexes the store with the node
\* when the trace level of the log is enabled, before the node is looked up.
RECURSIVE RemoveContainerLoop(_, _, _)
RemoveContainerLoop(t, children, trace_enabled) ==
  IF children = <<>>
  THEN LET t1 == validate(t)
       IN IF t1.panicked THEN PanicResult(t1) ELSE [t |-> t1, r |-> Ok(None)]
  ELSE
    LET node_ix == Head(children)
        s == remove_view_or_container(t, node_ix)
    IN IF trace_enabled /\ ~Live(t, node_ix) THEN PanicResult(t)
       ELSE IF ~Live(t, node_ix)
       THEN [t |-> t, r |-> Err("NodeWasRemoved", node_ix, None)]
       ELSE IF t.nodes[node_ix].type \in {"View", "Container"}
         THEN IF s.t.panicked \/ ~IsOk(s.r) THEN s
              ELSE RemoveContainerLoop(s.t, Tail(children), trace_enabled)
       ELSE RemoveContainerLoop(remove(t, node_ix), Tail(children), trace_enabled)

\* remove_container with the log below the trace level
remove_container(t, container_ix) ==
  RemoveContainerLoop(t, Append(all_descendants_of(t, container_ix), container_ix),
                      FALSE)

\* remove_container with the log at the trace level
remove_container_traced(t, container_ix) ==
  RemoveContainerLoop(t, Append(all_descendants_of(t, container_ix), container_ix),
                      TRUE)

\* the loop of remove_workspace over the remaining nodes
RECURSIVE RemoveWorkspaceLoop(_, _)
RemoveWorkspaceLoop(t, children) ==
  IF children = <<>> THEN [t |-> t, r |-> Ok(None)]
  ELSE
    LET child_ix == Head(children)
        t1 == IF t.active = child_ix THEN [t EXCEPT !.active = None] ELSE t
        s == remove_view_or_container(t1, child_ix)
    IN IF ~Live(t1, child_ix)
       THEN [t |-> t1, r |-> Err("NodeWasRemoved", child_ix, None)]
       ELSE IF t1.nodes[child_ix].type = "View"
              \/ (t1.nodes[child_ix].type = "Container"
                  /\ ~is_root_container(t1, child_ix))
         THEN IF s.t.panicked \/ ~IsOk(s.r) THEN s
              ELSE RemoveWorkspaceLoop(s.t, Tail(children))
       ELSE RemoveWorkspaceLoop(remove(t1, child_ix), Tail(children))

remove_workspace(t, node_ix) ==
  IF ~Live(t, node_ix) THEN PanicResult(t)
  ELSE IF t.nodes[node_ix].type # "Workspace"
  THEN [t |-> t, r |-> Err("UuidNotAssociatedWith", node_ix, None)]
  ELSE RemoveWorkspaceLoop(t, Append(all_descendants_of(t, node_ix), node_ix))

RECURSIVE RemoveAll(_, _)
RemoveAll(t, S) ==
  IF S = {} THEN t
  ELSE LET node == CHOOSE n \in S : \A m \in S : m <= n
       IN RemoveAll(remove(t, node), S \ {node})

destroy_tree(t) ==
  unset_active_container(RemoveAll(t, SeqToSet(all_descendants_of(t, root_ix))))

----------------------------------------------------------------------------
(* Fullscreen request on a view or container (layout/core/container.rs):   *)
(* its id is pushed on the fullscreen list of its workspace                *)

set_fullscreen(t, id) ==
  LET workspace_ix == ancestor_of_type(t, id, "Workspace")
  IN IF lookup_id(t, id) = None THEN [t |-> t, r |-> Err("NodeNotFound", id, None)]
     ELSE IF workspace_ix = None \/ t.nodes[id].type \notin {"View", "Container"}
       THEN [t |-> t, r |-> Err("UuidWrongType", id, None)]
     ELSE [t |-> update_fullscreen_c(t, workspace_ix, id, TRUE), r |-> Ok(None)]

----------------------------------------------------------------------------
(* Background and bar of an output (layout/core/background.rs, bar.rs):    *)
(* the slots of the Output are filled when the overlay's view appears      *)

attach_background(t, output_ix, background) ==
  IF lookup_id(t, output_ix) = None
  THEN [t |-> t, r |-> Err("NodeNotFound", output_ix, None)]
  ELSE IF t.nodes[output_ix].type # "Output"
  THEN [t |-> t, r |-> Err("UuidWrongType", output_ix, None)]
  ELSE [t |-> [t EXCEPT !.nodes[output_ix].background = background],
        r |-> Ok(None)]

attach_bar(t, output_ix, view) ==
  IF lookup_id(t, output_ix) = None
  THEN [t |-> t, r |-> Err("NodeNotFound", output_ix, None)]
  ELSE IF t.nodes[output_ix].type # "Output"
  THEN [t |-> t, r |-> Err("UuidWrongType", output_ix, None)]
  ELSE [t |-> [t EXCEPT !.nodes[output_ix].bar = view], r |-> Ok(None)]

----------------------------------------------------------------------------
(* Direction and its conversions from and to a ResizeEdge mask.  A mask is *)
(* the set of its flags: contains is membership, |= adds a flag.           *)

Directions == {"Up", "Down", "Left", "Right"}

\* the flags RESIZE_LEFT, RESIZE_RIGHT, RESIZE_TOP, RESIZE_BOTTOM
ResizeFlags == {"RESIZE_LEFT", "RESIZE_RIGHT", "RESIZE_TOP", "RESIZE_BOTTOM"}

from_edge(e) ==
  (IF "RESIZE_LEFT" \in e THEN <<"Left">> ELSE <<>>)
    \o (IF "RESIZE_RIGHT" \in e THEN <<"Right">> ELSE <<>>)
    \o (IF "RESIZE_TOP" \in e THEN <<"Up">> ELSE <<>>)
    \o (IF "RESIZE_BOTTOM" \in e THEN <<"Down">> ELSE <<>>)

\* the flag that to_edge adds for a direction
FlagOf(dir) ==
  CASE dir = "Up" -> "RESIZE_TOP"
    [] dir = "Down" -> "RESIZE_BOTTOM"
    [] dir = "Left" -> "RESIZE_LEFT"
    [] dir = "Right" -> "RESIZE_RIGHT"

\* to_edge with the flags of Up and Down exchanged
RECURSIVE to_edge_flips_vertical(_)
to_edge_flips_vertical(ds) ==
  IF ds = <<>> THEN {}
  ELSE to_edge_flips_vertical(SubSeq(ds, 1, Len(ds) - 1))
         \cup {IF ds[Len(ds)] \in {"Up", "Down"}
               THEN FlagOf(IF ds[Len(ds)] = "Up" THEN "Down" ELSE "Up")
               ELSE FlagOf(ds[Len(ds)])}

RECURSIVE to_edge(_)
to_edge(ds) ==
  IF ds = <<>> THEN {}
  ELSE to_edge(SubSeq(ds, 1, Len(ds) - 1)) \cup {FlagOf(ds[Len(ds)])}

\* reverse that leaves Left as it is
reverse_keeps_left(dir) ==
  CASE dir = "Up" -> "Down"
    [] dir = "Down" -> "Up"
    [] dir = "Left" -> "Left"
    [] dir = "Right" -> "Left"

reverse(dir) ==
  CASE dir = "Up" -> "Down"
    [] dir = "Down" -> "Up"
    [] dir = "Left" -> "Right"
    [] dir = "Right" -> "Left"

----------------------------------------------------------------------------
(* The state machine *)

ViewHandles == 1..MaxViewHandle

OutputHandles == 1..MaxOutputHandle

WorkspaceNames == {to_string(n) : n \in 1..MaxWorkspaceName}

\* layout of the containers that callers wrap around a node
WrapLayouts == {"Vertical"}

\* the tree value held in the variables
T ==
  [nodes |-> nodes, edges |-> edges, active |-> active_container,
   next |-> next_ix, panicked |-> panicked]

\* node indices a caller can hold: it gets them from lookup_id, lookup_view
\* or active_ix_of, so they are those of live or removed non-root nodes
NodeIndices == 1..(next_ix - 1)

\* the indices of the views and containers in the store
ViewOrContainerIndices ==
  {n \in DOMAIN nodes : nodes[n].type \in {"View", "Container"}}

\* Uuids a caller can hold
Uuids == 1..(next_ix - 1)

Room(k) == next_ix + k - 1 <= MaxNodes

FullscreenEntries ==
  LET Sum[S \in SUBSET DOMAIN nodes] ==
        IF S = {} THEN 0
        ELSE LET n == CHOOSE x \in S : TRUE
             IN Len(nodes[n].fullscreen_c) + Sum[S \ {n}]
  IN Sum[DOMAIN nodes]

\* no call is under way
NoFrame ==
  [op |-> "idle", pc |-> "idle", start |-> None, node |-> None, dir |-> "",
   steps |-> 0, pending |-> <<>>, entry |-> <<>>, expect |-> <<>>,
   r |-> <<>>]

\* A call that returns an error and changes nothing leaves no trace; any
\* other call is recorded in last, with the number of nodes it removed.
Becomes(s, op, arg) ==
  /\ nodes' = s.t.nodes
  /\ edges' = s.t.edges
  /\ active_container' = s.t.active
  /\ next_ix' = s.t.next
  /\ panicked' = s.t.panicked
  /\ last' = IF s.t = T /\ ~IsOk(s.r) THEN last
             ELSE [op |-> op, arg |-> arg, err |-> s.r.err,
                   removed |-> Cardinality(DOMAIN nodes \ DOMAIN s.t.nodes)]
  /\ UNCHANGED <<edge, dirs, frame>>

Init ==
  /\ nodes = [n \in {root_ix} |-> Blank]
  /\ edges = [c \in {} |-> [parent |-> root_ix, order |-> 1, active |-> FALSE]]
  /\ active_container = None
  /\ next_ix = 1
  /\ panicked = FALSE
  /\ last = [op |-> "new", arg |-> None, err |-> "", removed |-> 0]
  /\ edge = {}
  /\ dirs = <<>>
  /\ frame = NoFrame

SetActiveContainer ==
  /\ ~panicked
  /\ \E id \in Uuids : Becomes(set_active_container(T, id), "set_active_container", id)

SetActiveView ==
  /\ ~panicked
  /\ \E h \in ViewHandles : Becomes(set_active_view(T, h), "set_active_view", h)

UnsetActiveContainer ==
  /\ ~panicked
  /\ Becomes([t |-> unset_active_container(T), r |-> Ok(None)],
             "unset_active_container", None)

SetFullscreen ==
  /\ ~panicked
  /\ FullscreenEntries < MaxFullscreen
  /\ \E id \in Uuids : Becomes(set_fullscreen(T, id), "set_fullscreen", id)

AddView ==
  /\ ~panicked
  /\ Room(1)
  /\ \E h \in ViewHandles : Becomes(add_view(T, h), "add_view", h)

AddFloatingView ==
  /\ ~panicked
  /\ Room(1)
  /\ \E h \in ViewHandles : Becomes(add_floating_view(T, h), "add_floating_view", h)

AddContainer(Args) ==
  /\ ~panicked
  /\ Room(1)
  /\ \E layout \in WrapLayouts, child_ix \in Args :
       Becomes(add_container(T, new_container(layout), child_ix),
               "add_container", child_ix)

AddOutput ==
  /\ ~panicked
  /\ Room(3)
  /\ \E h \in OutputHandles : Becomes(add_output(T, h), "add_output", h)

\* a workspace with an unseen name is created on an output
InitWorkspace ==
  /\ ~panicked
  /\ Room(2)
  /\ \E name \in WorkspaceNames, output_ix \in DOMAIN nodes :
       /\ nodes[output_ix].type = "Output"
       /\ \A n \in DOMAIN nodes : nodes[n].name # name
       /\ Becomes(init_workspace(T, name, output_ix), "init_workspace", output_ix)

RemoveView ==
  /\ ~panicked
  /\ \E h \in ViewHandles : Becomes(remove_view(T, h), "remove_view", h)

RemoveViewOrContainer(Args) ==
  /\ ~panicked
  /\ \E node_ix \in Args :
       Becomes(remove_view_or_container(T, node_ix),
               "remove_view_or_container", node_ix)

RemoveActive ==
  /\ ~panicked
  /\ Becomes(remove_active(T), "remove_active", active_container)

RemoveContainer(Args) ==
  /\ ~panicked
  /\ \E node_ix \in Args :
       \/ Becomes(remove_container(T, node_ix), "remove_container", node_ix)
       \/ Becomes(remove_container_traced(T, node_ix), "remove_container", node_ix)

RemoveWorkspace(Args) ==
  /\ ~panicked
  /\ \E node_ix \in Args :
       Becomes(remove_workspace(T, node_ix), "remove_workspace", node_ix)

DestroyTree ==
  /\ ~panicked
  /\ Becomes([t |-> destroy_tree(T), r |-> Ok(None)], "destroy_tree", None)

Next ==
  \/ SetActiveContainer
  \/ SetActiveView
  \/ UnsetActiveContainer
  \/ SetFullscreen
  \/ AddView
  \/ AddFloatingView
  \/ AddContainer(NodeIndices)
  \/ AddOutput
  \/ InitWorkspace
  \/ RemoveView
  \/ RemoveViewOrContainer(NodeIndices)
  \/ RemoveActive
  \/ RemoveContainer(NodeIndices)
  \/ RemoveWorkspace(NodeIndices)
  \/ DestroyTree

Spec == Init /\ [][Next]_vars

\* the same operations, called with views and containers only
NextViewArgs ==
  \/ SetActiveContainer
  \/ SetActiveView
  \/ UnsetActiveContainer
  \/ SetFullscreen
  \/ AddView
  \/ AddFloatingView
  \/ AddContainer(ViewOrContainerIndices)
  \/ AddOutput
  \/ RemoveView
  \/ RemoveViewOrContainer(ViewOrContainerIndices)
  \/ RemoveActive
  \/ RemoveContainer(ViewOrContainerIndices)
  \/ RemoveWorkspace(ViewOrContainerIndices)
  \/ DestroyTree

SpecViewArgs == Init /\ [][NextViewArgs]_vars

\* handles of the views of backgrounds and bars; some are never in the tree
OverlayHandles == 1..(MaxViewHandle + 1)

Backgrounds ==
  {IncompleteBackground} \cup {CompleteBackground(h) : h \in OverlayHandles}

AttachBackground ==
  /\ ~panicked
  /\ \E output_ix \in NodeIndices, background \in Backgrounds :
       Becomes(attach_background(T, output_ix, background),
               "attach_background", output_ix)

AttachBar ==
  /\ ~panicked
  /\ \E output_ix \in NodeIndices, h \in OverlayHandles :
       Becomes(attach_bar(T, output_ix, h), "attach_bar", output_ix)

\* the windowing system reports the view of a window, a background or a bar
\* as destroyed
ViewDestroyed ==
  /\ ~panicked
  /\ \E h \in OverlayHandles : Becomes(remove_view(T, h), "remove_view", h)

\* the handles of the outputs that can be plugged in
HotplugHandles == 1..(MaxOutputHandle + 1)

\* an output is plugged in, possibly next to another one
HotplugOutput ==
  /\ ~panicked
  /\ Room(3)
  /\ \E h \in HotplugHandles : Becomes(add_output(T, h), "add_output", h)

\* outputs with backgrounds and bars, views, and workspaces that go away
NextOverlays ==
  \/ HotplugOutput
  \/ AddView
  \/ AttachBackground
  \/ AttachBar
  \/ ViewDestroyed
  \/ RemoveWorkspace(NodeIndices)

SpecOverlays == Init /\ [][NextOverlays]_vars

\* several outputs, with views and containers that come, move focus and go
NextHotplug ==
  \/ HotplugOutput
  \/ SetActiveContainer
  \/ UnsetActiveContainer
  \/ AddView
  \/ AddContainer(ViewOrContainerIndices)
  \/ RemoveViewOrContainer(ViewOrContainerIndices)
  \/ RemoveActive
  \/ DestroyTree

SpecHotplug == Init /\ [][NextHotplug]_vars

\* a node is made fullscreen while another one already is
SetFullscreenAgain ==
  /\ ~panicked
  /\ FullscreenEntries <= MaxFullscreen
  /\ \E id \in Uuids : Becomes(set_fullscreen(T, id), "set_fullscreen", id)

\* one output whose views and containers go fullscreen one after another
NextFullscreen ==
  \/ AddOutput
  \/ SetActiveContainer
  \/ SetActiveView
  \/ UnsetActiveContainer
  \/ SetFullscreenAgain
  \/ AddView
  \/ AddContainer(NodeIndices)
  \/ RemoveView
  \/ RemoveViewOrContainer(NodeIndices)
  \/ RemoveActive

SpecFullscreen == Init /\ [][NextFullscreen]_vars

----------------------------------------------------------------------------
(* LayoutTree: directional navigation *)

\* the layouts in which a direction moves among the siblings
Compatible(layout, dir) ==
  \/ layout = "Horizontal" /\ dir \in {"Left", "Right"}
  \/ layout = "Vertical" /\ dir \in {"Up", "Down"}

\* Ok((a, b)) of container_in_dir
OkPair(a, b) == [tag |-> "Ok", err |-> "", a |-> a, b |-> b]

\* container_in_dir that takes the sibling whatever the parent's layout is
RECURSIVE container_in_dir_any_layout(_, _, _)
container_in_dir_any_layout(t, id, dir) ==
  IF lookup_id(t, id) = None THEN Err("NodeNotFound", id, None)
  ELSE IF parent_of(t, id) = None THEN Err("PetGraph", id, None)
  ELSE IF t.nodes[id].type \notin {"View", "Container"}
  THEN Err("UuidWrongType", id, None)
  ELSE
    LET parent == parent_of(t, id)
        siblings == children_of(t, parent)
        cur_index == IndexOf(siblings, id)
        new_index == IF dir \in {"Right", "Down"} THEN cur_index + 1
                     ELSE cur_index - 1
    IN IF t.nodes[parent].type # "Container"
       THEN Err("UuidWrongType", id, None)
       ELSE IF new_index >= 1 /\ new_index <= Len(siblings)
         THEN OkPair(id, siblings[new_index])
         ELSE container_in_dir_any_layout(t, parent, dir)

\* container_in_dir going Left or Up to the first sibling, not the previous
RECURSIVE container_in_dir_to_first(_, _, _)
container_in_dir_to_first(t, id, dir) ==
  IF lookup_id(t, id) = None THEN Err("NodeNotFound", id, None)
  ELSE IF parent_of(t, id) = None THEN Err("PetGraph", id, None)
  ELSE IF t.nodes[id].type \notin {"View", "Container"}
  THEN Err("UuidWrongType", id, None)
  ELSE
    LET parent == parent_of(t, id)
        siblings == children_of(t, parent)
        cur_index == IndexOf(siblings, id)
        new_index == IF dir \in {"Right", "Down"} THEN cur_index + 1
                     ELSE IF cur_index > 1 THEN 1 ELSE 0
    IN IF t.nodes[parent].type # "Container"
       THEN Err("UuidWrongType", id, None)
       ELSE IF Compatible(t.nodes[parent].layout, dir)
              /\ new_index >= 1 /\ new_index <= Len(siblings)
         THEN OkPair(id, siblings[new_index])
         ELSE container_in_dir_to_first(t, parent, dir)

\* container_in_dir that gives up at the first parent instead of climbing
container_in_dir_no_climb(t, id, dir) ==
  IF lookup_id(t, id) = None THEN Err("NodeNotFound", id, None)
  ELSE IF parent_of(t, id) = None THEN Err("PetGraph", id, None)
  ELSE IF t.nodes[id].type \notin {"View", "Container"}
  THEN Err("UuidWrongType", id, None)
  ELSE
    LET parent == parent_of(t, id)
        siblings == children_of(t, parent)
        cur_index == IndexOf(siblings, id)
        new_index == IF dir \in {"Right", "Down"} THEN cur_index + 1
                     ELSE cur_index - 1
    IN IF t.nodes[parent].type # "Container"
       THEN Err("UuidWrongType", id, None)
       ELSE IF Compatible(t.nodes[parent].layout, dir)
              /\ new_index >= 1 /\ new_index <= Len(siblings)
         THEN OkPair(id, siblings[new_index])
         ELSE Err("UuidWrongType", parent, None)

RECURSIVE container_in_dir(_, _, _)
container_in_dir(t, id, dir) ==
  IF lookup_id(t, id) = None THEN Err("NodeNotFound", id, None)
  ELSE IF parent_of(t, id) = None THEN Err("PetGraph", id, None)
  ELSE IF t.nodes[id].type \notin {"View", "Container"}
  THEN Err("UuidWrongType", id, None)
  ELSE
    LET parent == parent_of(t, id)
        siblings == children_of(t, parent)
        cur_index == IndexOf(siblings, id)
        new_index == IF dir \in {"Right", "Down"} THEN cur_index + 1
                     ELSE cur_index - 1
    IN IF t.nodes[parent].type # "Container"
       THEN Err("UuidWrongType", id, None)
       ELSE IF Compatible(t.nodes[parent].layout, dir)
              /\ new_index >= 1 /\ new_index <= Len(siblings)
         THEN OkPair(id, siblings[new_index])
         ELSE container_in_dir(t, parent, dir)

\* a node is wrapped in a container of any layout
AddContainerLaidOut(Args) ==
  /\ ~panicked
  /\ Room(1)
  /\ \E layout \in Layouts, child_ix \in Args :
       Becomes(add_container(T, new_container(layout), child_ix),
               "add_container", child_ix)

\* the neighbour of a node is asked for; the tree is left as it is
ContainerInDir ==
  /\ ~panicked
  /\ \E id \in Uuids, dir \in Directions :
       Becomes([t |-> T, r |-> container_in_dir(T, id, dir)],
               "container_in_dir", id)

\* one output with views in containers of all layouts, and neighbour lookups
NextNavigate ==
  \/ AddOutput
  \/ SetActiveContainer
  \/ AddView
  \/ AddContainerLaidOut(ViewOrContainerIndices)
  \/ RemoveViewOrContainer(ViewOrContainerIndices)
  \/ ContainerInDir

SpecNavigate == Init /\ [][NextNavigate]_vars

\* the lists of directions of bounded length
DirectionLists == UNION {[1..n -> Directions] : n \in 0..MaxDirs}

\* a conversion leaves the tree as it is
Converted(op) ==
  /\ last' = [op |-> op, arg |-> None, err |-> "", removed |-> 0]
  /\ UNCHANGED <<nodes, edges, active_container, next_ix, panicked, frame>>

FromEdge ==
  /\ dirs' = from_edge(edge)
  /\ UNCHANGED edge
  /\ Converted("from_edge")

ToEdge ==
  /\ edge' = to_edge(dirs)
  /\ UNCHANGED dirs
  /\ Converted("to_edge")

\* every direction of the list is reversed
Reverse ==
  /\ dirs' = [i \in DOMAIN dirs |-> reverse(dirs[i])]
  /\ UNCHANGED edge
  /\ Converted("reverse")

\* any mask and any list of directions, on an empty tree
InitDirections ==
  /\ nodes = [n \in {root_ix} |-> Blank]
  /\ edges = [c \in {} |-> [parent |-> root_ix, order |-> 1, active |-> FALSE]]
  /\ active_container = None
  /\ next_ix = 1
  /\ panicked = FALSE
  /\ last = [op |-> "new", arg |-> None, err |-> "", removed |-> 0]
  /\ edge \in SUBSET ResizeFlags
  /\ dirs \in DirectionLists
  /\ frame = NoFrame

NextDirections ==
  \/ FromEdge
  \/ ToEdge
  \/ Reverse

SpecDirections == InitDirections /\ [][NextDirections]_vars

----------------------------------------------------------------------------
(* The recursions of container_in_dir and remove_view_or_container, one    *)
(* invocation at a time.  frame holds the call that is under way: the node *)
(* of the current invocation, the number of recursive calls made so far,   *)
(* the invocations that wait for their recursive call to return, the tree  *)
(* the call was started on and what the operation makes of that tree.  The *)
(* code runs a call to its end before the next event is taken (spec 5:     *)
(* single-threaded, no suspension point).                                  *)

\* the invocation goes on with a recursive call on node a
Recurse(a) == [tag |-> "Recurse", err |-> "", a |-> a, b |-> None]

\* container_in_dir calling itself on the same node instead of the parent
container_in_dir_level_stays(t, id, dir) ==
  IF lookup_id(t, id) = None THEN Err("NodeNotFound", id, None)
  ELSE IF parent_of(t, id) = None THEN Err("PetGraph", id, None)
  ELSE IF t.nodes[id].type \notin {"View", "Container"}
  THEN Err("UuidWrongType", id, None)
  ELSE
    LET parent == parent_of(t, id)
        siblings == children_of(t, parent)
        cur_index == IndexOf(siblings, id)
        new_index == IF dir \in {"Right", "Down"} THEN cur_index + 1
                     ELSE cur_index - 1
    IN IF t.nodes[parent].type # "Container"
       THEN Err("UuidWrongType", id, None)
       ELSE IF Compatible(t.nodes[parent].layout, dir)
              /\ new_index >= 1 /\ new_index <= Len(siblings)
         THEN OkPair(id, siblings[new_index])
         ELSE Recurse(id)

\* one invocation of container_in_dir, up to its result or recursive call
container_in_dir_level(t, id, dir) ==
  IF lookup_id(t, id) = None THEN Err("NodeNotFound", id, None)
  ELSE IF parent_of(t, id) = None THEN Err("PetGraph", id, None)
  ELSE IF t.nodes[id].type \notin {"View", "Container"}
  THEN Err("UuidWrongType", id, None)
  ELSE
    LET parent == parent_of(t, id)
        siblings == children_of(t, parent)
        cur_index == IndexOf(siblings, id)
        new_index == IF dir \in {"Right", "Down"} THEN cur_index + 1
                     ELSE cur_index - 1
    IN IF t.nodes[parent].type # "Container"
       THEN Err("UuidWrongType", id, None)
       ELSE IF Compatible(t.nodes[parent].layout, dir)
              /\ new_index >= 1 /\ new_index <= Len(siblings)
         THEN OkPair(id, siblings[new_index])
         ELSE Recurse(parent)

\* one invocation of remove_view_or_container up to the place of its
\* recursive call: the checks, the removal of the node and the clean-up of
\* the active pointer and the fullscreen list.  The result names the parent
\* the invocation goes on with, by a recursive call (Recurse) or not (Ok).
remove_view_or_container_level(t, node_ix) ==
  IF is_root_container(t, node_ix)
  THEN [t |-> t, r |-> Err("InvalidOperationOnRootContainer", node_ix, None),
        parent_type |-> ""]
  ELSE IF ~Live(t, node_ix)
  THEN [t |-> t, r |-> Err("NodeWasRemoved", node_ix, None), parent_type |-> ""]
  ELSE IF t.nodes[node_ix].type \notin {"View", "Container"}
  THEN [t |-> t, r |-> Err("UuidWrongType", node_ix, None), parent_type |-> ""]
  ELSE
    LET workspace_ix == ancestor_of_type(t, node_ix, "Workspace")
        c == ancestor_of_type(t, node_ix, "Container")
        parent_ix == IF c = None THEN workspace_ix ELSE c
        t1 == remove(t, node_ix)
        t2 == IF t1.active = node_ix THEN [t1 EXCEPT !.active = None] ELSE t1
        t3 == update_fullscreen_c(t2, workspace_ix, node_ix, FALSE)
        parent_type == t3.nodes[parent_ix].type
    IN IF workspace_ix = None
       THEN [t |-> Panic(t), r |-> Err("Panic", None, None), parent_type |-> ""]
       ELSE IF parent_type = "Container" /\ can_remove_empty_parent(t3, parent_ix)
         THEN [t |-> t3, r |-> Recurse(parent_ix), parent_type |-> parent_type]
         ELSE [t |-> t3, r |-> Ok(parent_ix), parent_type |-> parent_type]

\* the rest of an invocation of remove_view_or_container, after its
\* recursive call (if any) has returned without an error
remove_view_or_container_tail(t, w) ==
  LET t4 == IF w.parent_type = "Container" THEN validate(t) ELSE t
  IN IF t4.panicked THEN PanicResult(t4)
     ELSE [t |-> focus_on_next_container(t4, w.parent), r |-> Ok(w.node)]

\* the waiting invocations run their tails, the innermost first; a panic
\* ends them all
RECURSIVE ReturnAll(_, _)
ReturnAll(t, pending) ==
  LET n == Len(pending)
      s == remove_view_or_container_tail(t, pending[n])
  IN IF n = 1 \/ ~IsOk(s.r) THEN s
     ELSE ReturnAll(s.t, SubSeq(pending, 1, n - 1))

\* the tree is replaced and last is kept
TreeBecomes(t) ==
  /\ nodes' = t.nodes
  /\ edges' = t.edges
  /\ active_container' = t.active
  /\ next_ix' = t.next
  /\ panicked' = t.panicked
  /\ UNCHANGED <<last, edge, dirs>>

\* an event is taken when no call is under way
WhenIdle(A) == frame.op = "idle" /\ A

EnterContainerInDir ==
  /\ frame.op = "idle"
  /\ ~panicked
  /\ \E id \in Uuids, dir \in Directions :
       frame' = [NoFrame EXCEPT !.op = "container_in_dir", !.pc = "call",
                                !.start = id, !.node = id, !.dir = dir,
                                !.entry = T,
                                !.expect = [t |-> T,
                                            r |-> container_in_dir(T, id, dir)]]
  /\ TreeBecomes(T)

\* the current invocation returns or calls container_in_dir on the parent
\* (steps is capped to keep the state space finite whatever the level does)
StepContainerInDir ==
  /\ frame.op = "container_in_dir"
  /\ frame.pc = "call"
  /\ frame.steps <= MaxNodes
  /\ \E s \in {container_in_dir_level(T, frame.node, frame.dir)} :
       frame' = IF s.tag = "Recurse"
                THEN [frame EXCEPT !.node = s.a, !.steps = @ + 1]
                ELSE [frame EXCEPT !.pc = "done", !.r = s]
  /\ TreeBecomes(T)

EnterRemoveViewOrContainer ==
  /\ frame.op = "idle"
  /\ ~panicked
  /\ \E node_ix \in ViewOrContainerIndices :
       frame' = [NoFrame EXCEPT !.op = "remove_view_or_container",
                                !.pc = "call", !.start = node_ix,
                                !.node = node_ix, !.entry = T,
                                !.expect = remove_view_or_container(T, node_ix)]
  /\ TreeBecomes(T)

\* the current invocation removes its node; it returns an error (which try!
\* hands through the waiting invocations), calls itself on the emptied
\* parent, or goes on to its own tail
DescendRemoveViewOrContainer ==
  /\ frame.op = "remove_view_or_container"
  /\ frame.pc = "call"
  /\ frame.steps <= MaxNodes
  /\ \E s \in {remove_view_or_container_level(T, frame.node)} :
     LET w == [node |-> frame.node, parent |-> s.r.a,
               parent_type |-> s.parent_type]
     IN /\ frame' =
             IF s.r.tag = "Err"
             THEN [frame EXCEPT !.pc = "done", !.pending = <<>>, !.r = s.r]
             ELSE IF s.r.tag = "Recurse"
             THEN [frame EXCEPT !.node = s.r.a, !.steps = @ + 1,
                                !.pending = Append(@, w)]
             ELSE [frame EXCEPT !.pc = "return", !.pending = Append(@, w)]
        /\ TreeBecomes(s.t)

\* the waiting invocations run their tails (tree.rs 590-596), which call
\* nothing recursive, and return: frame.expect holds what ReturnAll makes
\* of the tree reached (EndsAsTheCall)
ReturnRemoveViewOrContainer ==
  /\ frame.op = "remove_view_or_container"
  /\ frame.pc = "return"
  /\ frame' = [frame EXCEPT !.pc = "done", !.pending = <<>>,
                            !.r = frame.expect.r]
  /\ TreeBecomes(frame.expect.t)

\* the call is over: its result is recorded
Finish ==
  /\ frame.pc = "done"
  /\ last' = [op |-> frame.op, arg |-> frame.start, err |-> frame.r.err,
              removed |-> Cardinality(DOMAIN frame.entry.nodes \ DOMAIN nodes)]
  /\ frame' = NoFrame
  /\ UNCHANGED <<nodes, edges, active_container, next_ix, panicked, edge, dirs>>

NextDescent ==
  \/ WhenIdle(AddOutput)
  \/ WhenIdle(AddView)
  \/ WhenIdle(AddContainer(ViewOrContainerIndices))
  \/ EnterContainerInDir
  \/ StepContainerInDir
  \/ EnterRemoveViewOrContainer
  \/ DescendRemoveViewOrContainer
  \/ ReturnRemoveViewOrContainer
  \/ Finish

\* a call that is under way goes on
Running ==
  \/ StepContainerInDir
  \/ DescendRemoveViewOrContainer
  \/ ReturnRemoveViewOrContainer
  \/ Finish

SpecDescent == Init /\ [][NextDescent]_vars /\ WF_vars(Running)

----------------------------------------------------------------------------
(* LayoutTree::validate_path.  The edge's active number is the boolean of  *)
(* the graph store, so the check for a repeated active number among        *)
(* siblings has no counterpart here.                                       *)

SingleActiveEdge(t, n) ==
  Cardinality({c \in ChildSet(t, n) : t.edges[c].active}) <= 1

RECURSIVE PathValidFrom(_, _)
PathValidFrom(t, cur_ix) ==
  /\ SingleActiveEdge(t, cur_ix)
  /\ IF ActiveChild(t, cur_ix) # None
     THEN PathValidFrom(t, ActiveChild(t, cur_ix))
     ELSE \/ t.nodes[cur_ix].type \in {"Root", "View", "Container"}
          \/ ChildSet(t, cur_ix) = {}

validate_path(t) ==
  /\ PathValidFrom(t, root_ix)
  /\ t.active # None => Live(t, t.active)

----------------------------------------------------------------------------
(* Properties *)

RemoveOps ==
  {"remove_view", "remove_view_or_container", "remove_active", "remove_container"}

\* every edge from Root down to n is active and all its sibling edges are not
RECURSIVE OnActivePath(_, _)
OnActivePath(t, n) ==
  \/ n = root_ix
  \/ /\ has_parent(t, n)
     /\ t.edges[n].active
     /\ \A c \in ChildSet(t, parent_of(t, n)) \ {n} : ~t.edges[c].active
     /\ OnActivePath(t, parent_of(t, n))

WorkspacesOf(t) == {n \in DOMAIN t.nodes : t.nodes[n].type = "Workspace"}

DenseOrders(t) ==
  \A p \in DOMAIN t.nodes :
    {t.edges[c].order : c \in ChildSet(t, p)} = 1..Cardinality(ChildSet(t, p))

\* C1: whatever add_* and remove_* calls were made, the order weights of
\* the child edges of every node with k children are exactly 1..k: no hole,
\* no duplicate, no 0.
C1_EdgeOrdersDense == DenseOrders(T)

\* a removal took a child from between two siblings that are still there
C1_MiddleChildRemoved ==
  /\ ~panicked
  /\ last.op \in RemoveOps
  /\ \E p \in DOMAIN nodes : \E a, b \in ChildSet(T, p) :
       \E gone \in NodeIndices \ DOMAIN nodes : a < gone /\ gone < b

\* C2: in every state the operations reach, the active container pointer,
\* if set, refers to a node that exists, is a View or a Container and is a
\* descendant of Root; removing an ancestor of the active container never
\* leaves the pointer on a detached or removed node.
C2_ActivePointerValid == ValidActive(T)

\* C3: whenever set_active_node(n) succeeds for a View or Container n, every
\* edge on the path from Root to n is active and every sibling edge of those
\* edges is inactive.
C3_SetActiveNodeMarksPath ==
  ~panicked =>
    \A n \in ViewOrContainerIndices :
      LET s == set_active_node(T, n)
      IN IsOk(s.r) => OnActivePath(s.t, n)

\* C4: in every reachable state in which the active container pointer is
\* set, the chain of active edges from Root reaches the active container
\* (also after a blocked add_view or add_container, and after add_output).
C4_ActiveChainReachesActive ==
  active_container # None => OnActivePath(T, active_container)

\* C5: in every reachable state each node has at most one active outgoing
\* edge, and the chain of active edges from Root, if it follows an edge at
\* all, stops at a View or a Container, never at an Output or a Workspace
\* that still has children.
C5_SinglePathEndsAtViewOrContainer ==
  /\ \A n \in DOMAIN nodes : SingleActiveEdge(T, n)
  /\ PathValidFrom(T, root_ix)

\* the workspaces below Root
WorkspacesInTree(t) ==
  {w \in WorkspacesOf(t) : ancestor_of_type(t, w, "Root") # None}

NamesUnique(t) ==
  \A w1, w2 \in WorkspacesInTree(t) :
    w1 # w2 => t.nodes[w1].name # t.nodes[w2].name

\* C6: no two workspaces of the tree have the same name, and this stays so
\* when add_output is called for an output handle that is not yet in the
\* tree.
C6_WorkspaceNamesUnique ==
  /\ NamesUnique(T)
  /\ ~panicked =>
       \A h \in HotplugHandles :
         (\A n \in DOMAIN nodes : ~(nodes[n].type = "Output" /\ nodes[n].handle = h))
           => NamesUnique(add_output(T, h).t)

Teardown == {"remove_workspace", "destroy_tree"}

\* the workspaces a step keeps
KeptWorkspaces == {w \in WorkspacesOf(T) : Live(T', w)}

\* init_workspace allocates a workspace and its root container one after
\* the other
OriginalRootContainer(w) == w + 1

\* C7 (as stated): in a step of any call but remove_workspace and
\* destroy_tree, every workspace that stays keeps at least one child, and
\* the Container that was created as its root container is not removed.
C7_OriginalRootContainerStays ==
  [][last'.op \notin Teardown =>
       \A w \in KeptWorkspaces :
         /\ ChildSet(T, w) # {} => ChildSet(T', w) # {}
         /\ Live(T, OriginalRootContainer(w)) => Live(T', OriginalRootContainer(w))]_vars

\* C7 (amended): in a step of any call but remove_workspace and
\* destroy_tree, every workspace that stays keeps at least one child, and no
\* node that is a child of the workspace when the call starts is removed.
C7_WorkspaceKeepsRootContainer ==
  [][last'.op \notin Teardown =>
       \A w \in KeptWorkspaces :
         /\ ChildSet(T, w) # {} => ChildSet(T', w) # {}
         /\ \A c \in ChildSet(T, w) : Live(T', c)]_vars

\* a removal has completed, a workspace has lost the container created as
\* its root container and still has a child
C7_WrappedRootContainerRemoved ==
  /\ ~panicked
  /\ last.op \in RemoveOps
  /\ \E w \in WorkspacesInTree(T) :
       /\ ~Live(T, OriginalRootContainer(w))
       /\ ChildSet(T, w) # {}

\* the call was refused for the root container id, which is still the root
\* container, and the active pointer is still set
RefusedOnRoot(s, id) ==
  /\ s.r = Err("InvalidOperationOnRootContainer", id, None)
  /\ is_root_container(s.t, id)
  /\ s.t.active # None

\* C8: when the active container is the root container of a workspace,
\* remove_active(), remove_view_or_container(active) and
\* remove_container(active) each return InvalidOperationOnRootContainer with
\* its id, the root container stays and the active pointer is still set.
C8_RootContainerRemovalRefused ==
  (~panicked /\ active_is_root(T)) =>
    /\ RefusedOnRoot(remove_active(T), active_container)
    /\ RefusedOnRoot(remove_view_or_container(T, active_container), active_container)
    /\ RefusedOnRoot(remove_container(T, active_container), active_container)

NoEmptyNestedContainer(t) ==
  \A c \in DOMAIN t.nodes :
    ~(/\ t.nodes[c].type = "Container"
      /\ ChildSet(t, c) = {}
      /\ has_parent(t, c)
      /\ t.nodes[parent_of(t, c)].type = "Container")

\* C9: after every completed remove_view, remove_view_or_container,
\* remove_active or remove_container call there is no Container without
\* children whose parent is a Container.
C9_NoEmptyNestedContainerAfterRemove ==
  (~panicked /\ last.op \in RemoveOps) => NoEmptyNestedContainer(T)

\* a remove_view_or_container call has removed the node and the container
\* it emptied, and has stopped at a root container that is now empty
C9_ParentChainRemoved ==
  /\ ~panicked
  /\ last.op = "remove_view_or_container"
  /\ last.err = ""
  /\ last.removed >= 2
  /\ \E c \in DOMAIN nodes : is_root_container(T, c) /\ ChildSet(T, c) = {}

NodesInTree(t) == {root_ix} \cup SeqToSet(all_descendants_of(t, root_ix))

KindsBelow(type) ==
  CASE type = "Root" -> {"Output"}
    [] type = "Output" -> {"Workspace"}
    [] type = "Workspace" -> {"Container"}
    [] type = "Container" -> {"Container", "View"}
    [] OTHER -> {}

\* C10: when the node arguments of the calls are Views and Containers, the
\* children of Root are Outputs, those of an Output Workspaces, those of a
\* Workspace Containers, those of a Container Containers or Views, and a
\* View has no children.
C10_KindsByDepth ==
  \A n \in NodesInTree(T) :
    \A c \in ChildSet(T, n) : nodes[c].type \in KindsBelow(nodes[n].type)

\* add_container has put a view two containers below its workspace
C10_ViewInNestedContainer ==
  /\ ~panicked
  /\ last.op = "add_container"
  /\ \E v \in NodesInTree(T) :
       /\ nodes[v].type = "View"
       /\ nodes[parent_of(T, v)].type = "Container"
       /\ nodes[parent_of(T, parent_of(T, v))].type = "Container"

\* the fullscreen list of the workspace above n, or the empty list
FullscreenListOf(t, n) ==
  LET ws == ancestor_of_type(t, n, "Workspace")
  IN IF ws = None THEN <<>> ELSE t.nodes[ws].fullscreen_c

\* the call failed with BlockedByFullscreen(n, holder) and changed nothing
BlockedBy(s, t, n, holder) ==
  /\ s.r = Err("BlockedByFullscreen", n, holder)
  /\ s.t = t

\* C11: set_active_node(n), and set_active_container and set_active_view
\* when they resolve to n, fail with BlockedByFullscreen(n, holder) whenever
\* the fullscreen list of n's workspace is not empty and its last element,
\* the holder, is not n; the active pointer and the edges are then as they
\* were.  When the last element is n the call is not blocked.
C11_BlockedByFullscreen ==
  ~panicked =>
    \A n \in DOMAIN nodes :
      LET fs == FullscreenListOf(T, n)
          holder == fs[Len(fs)]
          h == nodes[n].handle
      IN fs # <<>> =>
           IF holder # n
           THEN /\ BlockedBy(set_active_node(T, n), T, n, holder)
                /\ BlockedBy(set_active_container(T, n), T, n, holder)
                /\ lookup_view(T, h) = n => BlockedBy(set_active_view(T, h), T, n, holder)
           ELSE /\ set_active_node(T, n).r.err # "BlockedByFullscreen"
                /\ set_active_container(T, n).r.err # "BlockedByFullscreen"
                /\ lookup_view(T, h) = n =>
                     set_active_view(T, h).r.err # "BlockedByFullscreen"

\* a node is the older of two entries of its workspace's fullscreen list,
\* and focusing it is refused
C11_OlderFullscreenEntryBlocked ==
  /\ ~panicked
  /\ \E n \in DOMAIN nodes :
       LET fs == FullscreenListOf(T, n)
       IN /\ Len(fs) = 2
          /\ fs[1] = n
          /\ fs[2] # n
          /\ set_active_node(T, n).r.err = "BlockedByFullscreen"

\* the call returned NoActiveContainer and changed nothing
RefusedNoActive(s, t) ==
  /\ s.r = Err("NoActiveContainer", None, None)
  /\ s.t = t

\* C12: when the active container pointer is unset, add_view and
\* remove_active both return NoActiveContainer, and no node, edge weight or
\* the active pointer is changed.
C12_NoActiveContainerRefused ==
  (~panicked /\ active_container = None) =>
    /\ \A h \in ViewHandles : RefusedNoActive(add_view(T, h), T)
    /\ RefusedNoActive(remove_active(T), T)

\* the call succeeded and put a view with the handle at index v, below Root
InsertedView(s, v, h) ==
  /\ s.r = Ok(v)
  /\ ~s.t.panicked
  /\ Live(s.t, v)
  /\ s.t.nodes[v].type = "View"
  /\ s.t.nodes[v].handle = h
  /\ ancestor_of_type(s.t, v, "Root") # None

OutputInTree(t, h) ==
  \E o \in ChildSet(t, root_ix) :
    t.nodes[o].type = "Output" /\ t.nodes[o].handle = h

\* C14: add_output(h) returns OutputExists(h) when some Output child of Root
\* already has handle h, and then adds no node, changes no edge weight and
\* leaves the active pointer as it was.
C14_OutputExistsRefused ==
  ~panicked =>
    \A h \in HotplugHandles :
      OutputInTree(T, h) =>
        /\ add_output(T, h).r = Err("OutputExists", h, None)
        /\ add_output(T, h).t = T

\* Root has two outputs and add_output is refused for the handle of the
\* second one
C14_SecondOutputRefused ==
  /\ ~panicked
  /\ Len(children_of(T, root_ix)) = 2
  /\ LET o == children_of(T, root_ix)[2]
     IN /\ nodes[o].type = "Output"
        /\ add_output(T, nodes[o].handle).r.err = "OutputExists"

\* the decimal numerals of the handles that can be plugged in
Decimal(h) == <<"1", "2", "3">>[h]

\* o is an Output with the handle whose only child is a Workspace with the
\* name, whose only child is an empty Container that is the active container
FreshOutput(t, o, h, name) ==
  /\ t.nodes[o] = new_output(h)
  /\ \E w \in ChildSet(t, o) :
       /\ ChildSet(t, o) = {w}
       /\ t.nodes[w] = new_workspace(name)
       /\ \E c \in ChildSet(t, w) :
            /\ ChildSet(t, w) = {c}
            /\ t.nodes[c].type = "Container"
            /\ ChildSet(t, c) = {}
            /\ t.active = c

SlotsCleared(output, h) ==
  [output EXCEPT
     !.background = IF output.background.state = "Complete"
                       /\ output.background.handle = h
                    THEN NoBackground ELSE output.background,
     !.bar = IF output.bar = h THEN None ELSE output.bar]

\* C16: remove_view(h) for a handle h of no view of the tree returns
\* ViewNotFound(h); the background slot and the bar slot of every Output that
\* hold h are emptied, every other slot is as it was, and no node is added
\* or removed, no edge weight and not the active pointer is changed.
C16_ViewNotFoundClearsOverlays ==
  ~panicked =>
    \A h \in OverlayHandles : \A s \in {remove_view(T, h)} :
      lookup_view(T, h) = None =>
        /\ s.r = Err("ViewNotFound", h, None)
        /\ s.t.edges = edges
        /\ s.t.active = active_container
        /\ s.t.next = next_ix
        /\ DOMAIN s.t.nodes = DOMAIN nodes
        /\ \A n \in DOMAIN nodes :
             s.t.nodes[n] = IF nodes[n].type = "Output"
                            THEN SlotsCleared(nodes[n], h)
                            ELSE nodes[n]

\* the views of the tree with the handle
ViewsWithHandle(t, h) ==
  {v \in NodesInTree(t) : t.nodes[v].type = "View" /\ t.nodes[v].handle = h}

\* LayoutTree::lookup and LayoutTree::lookup_view, as results
lookup(t, id) ==
  IF lookup_id(t, id) # None THEN Ok(id) ELSE Err("NodeNotFound", id, None)

lookup_view_result(t, h) ==
  IF lookup_view(t, h) # None THEN Ok(lookup_view(t, h))
  ELSE Err("ViewNotFound", h, None)

\* if the removal s of node n from t succeeded, n is resolved neither by its
\* id nor, if no other view had its handle, by its handle, and n has no
\* parent
GoneAfter(s, t, n) ==
  IsOk(s.r) =>
    /\ ~s.t.panicked
    /\ lookup(s.t, n) = Err("NodeNotFound", n, None)
    /\ ~has_parent(s.t, n)
    /\ \A p \in DOMAIN s.t.nodes : n \notin ChildSet(s.t, p)
    /\ (t.nodes[n].type = "View" /\ ViewsWithHandle(t, t.nodes[n].handle) = {n}) =>
         lookup_view_result(s.t, t.nodes[n].handle)
           = Err("ViewNotFound", t.nodes[n].handle, None)

\* C17: after remove_view, remove_view_or_container or remove_active returns
\* success for a node, the node is no longer resolved by its id (NodeNotFound)
\* nor, when its view handle is unique in the tree, by its handle
\* (ViewNotFound), and it is a child of no node.
C17_RemovedNodeNotResolvable ==
  ~panicked =>
    /\ \A n \in ViewOrContainerIndices :
         \A s \in {remove_view_or_container(T, n)} : GoneAfter(s, T, n)
    /\ active_container # None =>
         \A s \in {remove_active(T)} : GoneAfter(s, T, active_container)
    /\ \A h \in ViewHandles :
         lookup_view(T, h) # None =>
           \A s \in {remove_view(T, h)} : GoneAfter(s, T, lookup_view(T, h))

\* remove_active has removed the active view or container, and no view is
\* left in the tree
C17_ActiveNodeRemoved ==
  /\ ~panicked
  /\ last.op = "remove_active"
  /\ last.err = ""
  /\ last.removed >= 1
  /\ ~Live(T, last.arg)
  /\ ChildSet(T, root_ix) # {}
  /\ \A h \in ViewHandles : lookup_view(T, h) = None

\* the active container is a View, the only child of a workspace's root
\* container
ActiveIsLoneView(t) ==
  /\ t.active # None
  /\ Live(t, t.active)
  /\ t.nodes[t.active].type = "View"
  /\ is_root_container(t, parent_of(t, t.active))
  /\ ChildSet(t, parent_of(t, t.active)) = {t.active}

\* the removal succeeded and made the container the active container, the
\* root container of its workspace
FocusMovedToRoot(s, root_c) ==
  /\ IsOk(s.r)
  /\ s.t.active = root_c
  /\ active_is_root(s.t)

\* the fullscreen list of the active container's workspace names only the
\* active container and its parent
NoForeignFullscreenEntry(t) ==
  SeqToSet(FullscreenListOf(t, t.active)) \subseteq {t.active, parent_of(t, t.active)}

\* C18: when the active container is a View that is the only child of its
\* workspace's root container, remove_active and remove_view_or_container
\* on it succeed, and afterwards the active container is that workspace's
\* root container, so active_is_root() is true.
C18_LoneViewRemovalFocusesRoot ==
  (~panicked /\ ActiveIsLoneView(T)) =>
    /\ \A s \in {remove_active(T)} :
         FocusMovedToRoot(s, parent_of(T, active_container))
    /\ \A s \in {remove_view_or_container(T, active_container)} :
         FocusMovedToRoot(s, parent_of(T, active_container))

\* C18, for the states in which no other node holds a fullscreen entry of
\* the workspace: the successor is then the same whether or not the focus
\* rule honours the fullscreen block.
C18_LoneViewRemovalFocusesRootUnblocked ==
  (~panicked /\ ActiveIsLoneView(T) /\ NoForeignFullscreenEntry(T)) =>
    /\ \A s \in {remove_active(T)} :
         FocusMovedToRoot(s, parent_of(T, active_container))
    /\ \A s \in {remove_view_or_container(T, active_container)} :
         FocusMovedToRoot(s, parent_of(T, active_container))

\* node indices that were handed out and whose node has been removed
RemovedIndices == NodeIndices \ DOMAIN nodes

\* the call returned an error and changed nothing
RefusedUnchanged(s, t) ==
  /\ ~IsOk(s.r)
  /\ s.r.err # "Panic"
  /\ s.t = t

\* C19: remove_container and remove_view_or_container on a node that has
\* already been removed return an error and leave the nodes, the edge
\* weights and the active pointer unchanged.
C19_RemovedNodeRefused ==
  ~panicked =>
    \A n \in RemovedIndices :
      /\ RefusedUnchanged(remove_view_or_container(T, n), T)
      /\ RefusedUnchanged(remove_container(T, n), T)
      /\ RefusedUnchanged(remove_container_traced(T, n), T)

\* the call succeeded and none of the nodes is left in the store
RemovedAll(s, S) ==
  /\ IsOk(s.r)
  /\ ~s.t.panicked
  /\ \A d \in S : lookup(s.t, d) = Err("NodeNotFound", d, None)

\* the live views and the live containers that are not root containers
RemovableNodes(t) ==
  {n \in NodesInTree(t) :
     t.nodes[n].type \in {"View", "Container"} /\ ~is_root_container(t, n)}

\* C20: remove_container(n), for n a live View or a live Container that is
\* not a root container, with any number of descendants, returns success,
\* and afterwards neither n nor any former descendant of n is in the tree or
\* resolved by its id.
C20_RemoveContainerRemovesSubtree ==
  ~panicked =>
    \A n \in RemovableNodes(T) :
      /\ RemovedAll(remove_container(T, n),
                    {n} \cup SeqToSet(all_descendants_of(T, n)))
      /\ RemovedAll(remove_container_traced(T, n),
                    {n} \cup SeqToSet(all_descendants_of(T, n)))

\* the active container is set and is neither n nor below n
ActiveOutside(t, n) ==
  /\ t.active # None
  /\ t.active # n
  /\ t.active \notin SeqToSet(all_descendants_of(t, n))

\* the call succeeded and the active pointer is the one of t
ActiveKept(s, t) == (IsOk(s.r) /\ ~s.t.panicked) => s.t.active = t.active

\* C21: when the active container is neither n nor a descendant of n, the
\* active pointer is the same node after a successful remove_container(n) or
\* remove_view_or_container(n) as before the call.
C21_ActivePointerSurvivesRemoval ==
  ~panicked =>
    \A n \in DOMAIN nodes :
      ActiveOutside(T, n) =>
        /\ ActiveKept(remove_view_or_container(T, n), T)
        /\ ActiveKept(remove_container(T, n), T)

\* the workspaces of the tree that have a root container
WorkspacesWithRoot(t) ==
  {w \in WorkspacesInTree(t) :
     \E c \in ChildSet(t, w) : t.nodes[c].type = "Container"}

\* the nodes that leave with the workspace
WorkspaceNodes(t, w) == {w} \cup SeqToSet(all_descendants_of(t, w))

\* every node outside the set is as it was, and so is every edge below
\* another workspace
OthersUnchanged(s, t, gone) ==
  /\ \A n \in DOMAIN t.nodes \ gone : Live(s.t, n) /\ s.t.nodes[n] = t.nodes[n]
  /\ \A w \in WorkspacesOf(t) \ gone :
       \A d \in SeqToSet(all_descendants_of(t, w)) :
         d \in DOMAIN s.t.edges /\ s.t.edges[d] = t.edges[d]

\* C22: remove_workspace(w), for a workspace w with a root container that
\* holds any nesting of containers and views, returns success; then w and
\* all its former descendants are out of the tree, every other workspace and
\* its subtree are as they were, and the active pointer is unset if it was
\* inside w.
C22_RemoveWorkspaceCascades ==
  ~panicked =>
    \A w \in WorkspacesWithRoot(T) : \A s \in {remove_workspace(T, w)} :
      /\ RemovedAll(s, WorkspaceNodes(T, w))
      /\ OthersUnchanged(s, T, WorkspaceNodes(T, w))
      /\ active_container \in WorkspaceNodes(T, w) => s.t.active = None

\* C23: after destroy_tree(), from any reachable state, Root has no
\* children, no container other than Root is resolved by its id, and the
\* active container pointer is unset.
C23_DestroyTreeEmpties ==
  ~panicked =>
    \A t \in {destroy_tree(T)} :
      /\ children_of(t, root_ix) = <<>>
      /\ \A id \in Uuids : lookup_id(t, id) = None
      /\ t.active = None

\* n and the nodes above it, the nearest first
RECURSIVE SelfAndAncestors(_, _)
SelfAndAncestors(t, n) ==
  IF parent_of(t, n) = None THEN <<n>>
  ELSE <<n>> \o SelfAndAncestors(t, parent_of(t, n))

\* the layout that lays its children out along the direction
LayoutAlong(dir) == IF dir \in {"Left", "Right"} THEN "Horizontal" ELSE "Vertical"

\* the step in the order weight towards the direction
OrderStep(dir) == IF dir \in {"Right", "Down"} THEN 1 ELSE -1

\* the siblings next to a on the side of dir, inside a parent container
\* laid out along dir
SideSiblings(t, a, dir) ==
  {b \in DOMAIN t.edges :
     /\ a \in DOMAIN t.edges
     /\ t.edges[b].parent = t.edges[a].parent
     /\ t.nodes[t.edges[a].parent].type = "Container"
     /\ t.nodes[t.edges[a].parent].layout = LayoutAlong(dir)
     /\ t.edges[b].order = t.edges[a].order + OrderStep(dir)}

\* C24: whenever container_in_dir(id, dir) returns (a, b), a is id or an
\* ancestor of id; a and b are children of one Container whose layout is
\* Horizontal for Left and Right and Vertical for Up and Down; b is the
\* sibling right after a in order for Right and Down and right before a for
\* Left and Up; and no node from id up to a, a excluded, has such a sibling.
C24_ContainerInDirNearestNeighbour ==
  ~panicked =>
    \A id \in Uuids, dir \in Directions : \A r \in {container_in_dir(T, id, dir)} :
      IsOk(r) =>
        LET chain == SelfAndAncestors(T, id)
        IN \E k \in 1..Len(chain) :
             /\ chain[k] = r.a
             /\ r.b \in SideSiblings(T, r.a, dir)
             /\ \A j \in 1..(k - 1) : SideSiblings(T, chain[j], dir) = {}

\* container_in_dir has returned the neighbour of an ancestor of the node it
\* was asked about
C24_NeighbourOfAncestorFound ==
  /\ ~panicked
  /\ last.op = "container_in_dir"
  /\ \E dir \in Directions : \E r \in {container_in_dir(T, last.arg, dir)} :
       /\ IsOk(r)
       /\ r.a # last.arg
       /\ r.b # last.arg

\* the views and containers of the tree
ViewsAndContainers(t) ==
  {n \in NodesInTree(t) : t.nodes[n].type \in {"View", "Container"}}

\* n and the nodes above it that are below a workspace
BelowWorkspace(t, n) ==
  {x \in SeqToSet(SelfAndAncestors(t, n)) :
     ancestor_of_type(t, x, "Workspace") # None}

\* C25: container_in_dir(id, dir) for a View or Container of the tree
\* returns an error exactly when neither id nor any node above it and below
\* the workspace has, inside a parent Container whose layout matches dir, a
\* sibling on the side of dir; a node at the edge of every matching ancestor
\* gets an error, and siblings in a Tabbed or Stacked parent are never
\* returned for each other.
C25_ContainerInDirFailsAtEdge ==
  ~panicked =>
    \A id \in ViewsAndContainers(T), dir \in Directions :
      \A r \in {container_in_dir(T, id, dir)} :
        /\ ~IsOk(r) <=>
             \A x \in BelowWorkspace(T, id) : SideSiblings(T, x, dir) = {}
        /\ IsOk(r) => T.nodes[parent_of(T, r.a)].layout \notin {"Tabbed", "Stacked"}

\* two views are siblings in a Tabbed or Stacked container, and asking for
\* the neighbour of the first one fails in every direction
C25_TabbedSiblingsNotNeighbours ==
  /\ ~panicked
  /\ \E a, b \in NodesInTree(T) :
       /\ a # b
       /\ nodes[a].type = "View"
       /\ nodes[b].type = "View"
       /\ parent_of(T, a) = parent_of(T, b)
       /\ nodes[parent_of(T, a)].layout \in {"Tabbed", "Stacked"}
       /\ \A dir \in Directions : ~IsOk(container_in_dir(T, a, dir))

\* Up and Down are the vertical directions
Vertical(dir) == dir \in {"Up", "Down"}

\* C26: Direction::reverse is an involution without fixed points that stays
\* on the axis: for each direction d, reverse(reverse(d)) = d and reverse(d)
\* differs from d; Up and Down are mapped to each other, and so are Left and
\* Right.
C26_ReverseInvolution ==
  \A i \in DOMAIN dirs :
    /\ reverse(reverse(dirs[i])) = dirs[i]
    /\ reverse(dirs[i]) # dirs[i]
    /\ Vertical(reverse(dirs[i])) <=> Vertical(dirs[i])

\* a list with directions of both axes has been reversed
C26_BothAxesReversed ==
  /\ last.op = "reverse"
  /\ \E i, j \in DOMAIN dirs : Vertical(dirs[i]) /\ ~Vertical(dirs[j])

\* C27: to_edge(from_edge(e)) = e for every mask e over the four flags; for
\* every list ds of directions, from_edge(to_edge(ds)) holds each direction
\* that occurs in ds exactly once and no other direction, so that to_edge is
\* the same for lists with the same directions, whatever their order and
\* multiplicity.
C27_EdgeRoundTrip ==
  /\ to_edge(from_edge(edge)) = edge
  /\ \A back \in {from_edge(to_edge(dirs))} :
       /\ SeqToSet(back) = SeqToSet(dirs)
       /\ Len(back) = Cardinality(SeqToSet(dirs))
  /\ \A ds \in DirectionLists :
       SeqToSet(ds) = SeqToSet(dirs) => to_edge(ds) = to_edge(dirs)

\* a list in which a direction occurs twice has been converted to a mask
C27_RepeatedDirectionConverted ==
  /\ last.op = "to_edge"
  /\ Len(dirs) = 3
  /\ Cardinality(SeqToSet(dirs)) = 2
  /\ Cardinality(edge) = 2

\* the call succeeded and put its new node n below p, with the order weight
\* pos; the children that p had at pos or after it moved up by one and the
\* others kept their order
InsertedAt(s, t, p, n, pos) ==
  /\ IsOk(s.r)
  /\ ~s.t.panicked
  /\ ChildSet(s.t, p) = ChildSet(t, p) \cup {n}
  /\ n \notin ChildSet(t, p)
  /\ s.t.edges[n].order = pos
  /\ \A c \in ChildSet(t, p) :
       s.t.edges[c].order = IF t.edges[c].order >= pos THEN t.edges[c].order + 1
                            ELSE t.edges[c].order

\* the active container is a View that has a parent
ActiveIsView(t) ==
  /\ t.active # None
  /\ t.nodes[t.active].type = "View"
  /\ parent_of(t, t.active) # None

\* C28: when the active container is a View v with parent P, a successful
\* add_view puts the new view below P right after v: P has one more child,
\* the new view's order is order(v) + 1, the siblings after v move up by one
\* and the siblings up to v keep their orders.
C28_AddViewAfterActiveView ==
  (~panicked /\ ActiveIsView(T)) =>
    \A h \in ViewHandles : \A s \in {add_view(T, h)} :
      IsOk(s.r) =>
        InsertedAt(s, T, parent_of(T, active_container), next_ix,
                   edges[active_container].order + 1)

\* the active container is a View with a sibling after it, and add_view
\* succeeds
C28_ViewAddedBetweenSiblings ==
  /\ ~panicked
  /\ ActiveIsView(T)
  /\ \E c \in ChildSet(T, parent_of(T, active_container)) :
       edges[c].order > edges[active_container].order
  /\ \E h \in ViewHandles : IsOk(add_view(T, h).r)

\* the active container is a Container
ActiveIsContainer(t) ==
  /\ t.active # None
  /\ t.nodes[t.active].type = "Container"

\* C29: when the active container is a Container C with k children, a
\* successful add_view puts the new view below C at the end: the new view
\* gets order k + 1 and the k children of C keep their orders, whatever the
\* order of C among its own siblings is.
C29_AddViewAtEndOfActiveContainer ==
  (~panicked /\ ActiveIsContainer(T)) =>
    \A h \in ViewHandles : \A s \in {add_view(T, h)} :
      IsOk(s.r) =>
        InsertedAt(s, T, active_container, next_ix,
                   Cardinality(ChildSet(T, active_container)) + 1)

\* the first Container met from Root along the active edges, or None
RECURSIVE FirstContainerOnActivePath(_, _)
FirstContainerOnActivePath(t, n) ==
  IF t.nodes[n].type = "Container" THEN n
  ELSE IF \A c \in ChildSet(t, n) : ~t.edges[c].active THEN None
  ELSE FirstContainerOnActivePath(t,
         CHOOSE c \in ChildSet(t, n) :
           /\ t.edges[c].active
           /\ \A d \in ChildSet(t, n) : t.edges[d].active => c <= d)

\* the Container that is a child of the workspace of the active container
\* and is the active container or above it; without an active container the
\* first Container on the active path from Root; None when there is none
FloatingParent(t) ==
  IF t.active = None THEN FirstContainerOnActivePath(t, root_ix)
  ELSE LET chain == SelfAndAncestors(t, t.active)
           S == {i \in 1..(Len(chain) - 1) :
                   /\ t.nodes[chain[i]].type = "Container"
                   /\ t.nodes[chain[i + 1]].type = "Workspace"}
       IN IF S = {} THEN None
          ELSE chain[CHOOSE i \in S : \A j \in S : i <= j]

\* C30: when the root container of the active container's workspace (without
\* an active container: the first Container on the active path from Root)
\* exists, add_floating_view succeeds, the new view is its last child and is
\* floating, and the active container and every existing edge are as before;
\* when there is none, it returns NoActiveContainer and changes nothing.
C30_AddFloatingView ==
  ~panicked =>
    \A h \in ViewHandles : \A s \in {add_floating_view(T, h)} :
      LET rc == FloatingParent(T)
      IN IF rc # None
         THEN /\ s.r = Ok(next_ix)
              /\ DOMAIN s.t.nodes = DOMAIN nodes \cup {next_ix}
              /\ s.t.nodes[next_ix].type = "View"
              /\ s.t.nodes[next_ix].floating
              /\ \A n \in DOMAIN nodes : s.t.nodes[n] = nodes[n]
              /\ children_of(s.t, rc) = Append(children_of(T, rc), next_ix)
              /\ \A c \in DOMAIN edges : s.t.edges[c] = edges[c]
              /\ s.t.active = active_container
              /\ ~s.t.panicked
         ELSE /\ s.r = Err("NoActiveContainer", None, None)
              /\ s.t = T

\* the node indices add_container can wrap: those of nodes with a parent
WrapArgs == {child_ix \in NodeIndices : parent_of(T, child_ix) # None}

\* C31: after add_container(c, child) succeeds, with P the parent of child
\* and w the order of child under P before the call: the new container is a
\* child of P with order w, child is the only child of the new container and
\* has order 1, P has as many children as before, and the other children of
\* P keep their orders.
C31_AddContainerTakesChildsPlace ==
  ~panicked =>
    \A child_ix \in WrapArgs : \A layout \in WrapLayouts :
      \A s \in {add_container(T, new_container(layout), child_ix)} :
        IsOk(s.r) =>
          LET P == parent_of(T, child_ix)
              w == edges[child_ix].order
          IN /\ parent_of(s.t, next_ix) = P
             /\ s.t.edges[next_ix].order = w
             /\ children_of(s.t, next_ix) = <<child_ix>>
             /\ s.t.edges[child_ix].order = 1
             /\ Cardinality(ChildSet(s.t, P)) = Cardinality(ChildSet(T, P))
             /\ \A c \in ChildSet(T, P) \ {child_ix} :
                  /\ c \in ChildSet(s.t, P)
                  /\ s.t.edges[c].order = edges[c].order

\* add_container has wrapped a child that had a sibling after it
C31_MiddleChildWrapped ==
  /\ ~panicked
  /\ last.op = "add_container"
  /\ last.err = ""
  /\ \E n \in DOMAIN nodes :
       /\ nodes[n].type = "Container"
       /\ children_of(T, n) = <<last.arg>>
       /\ \E c \in ChildSet(T, parent_of(T, n)) : edges[c].order > edges[n].order

\* C32: after add_container(c, child) succeeds the active container is the
\* new container when the fullscreen list of child's workspace is empty;
\* when it is not, the call succeeds all the same, child is wrapped, and the
\* active container is the one from before the call.
C32_AddContainerFocusesUnlessBlocked ==
  ~panicked =>
    \A child_ix \in WrapArgs : \A layout \in WrapLayouts :
      \A s \in {add_container(T, new_container(layout), child_ix)} :
        LET fs == FullscreenListOf(T, child_ix)
        IN /\ IsOk(s.r) =>
                /\ children_of(s.t, next_ix) = <<child_ix>>
                /\ s.t.active = IF fs = <<>> THEN next_ix ELSE active_container
           /\ s.r.err # "BlockedByFullscreen"

\* add_container has wrapped a node of a workspace in which a view is
\* fullscreen, and the active container is not the new container
C32_WrappedWhileBlocked ==
  /\ ~panicked
  /\ last.op = "add_container"
  /\ last.err = ""
  /\ Live(T, next_ix - 1)
  /\ nodes[next_ix - 1].type = "Container"
  /\ children_of(T, next_ix - 1) = <<last.arg>>
  /\ active_container # next_ix - 1
  /\ LET fs == FullscreenListOf(T, next_ix - 1)
     IN /\ fs # <<>>
        /\ Live(T, fs[Len(fs)])

\* C33: in_fullscreen_workspace(id) returns NodeNotFound(id) when no live
\* node has the id; for a live node below a workspace it returns the last
\* element of that workspace's fullscreen list, or None when the list is
\* empty.  Of the entries of a list only the last one is not refused focus
\* with BlockedByFullscreen.
C33_InFullscreenWorkspaceReportsLast ==
  ~panicked =>
    \A id \in Uuids :
      LET r == in_fullscreen_workspace(T, id)
          ws == ancestor_of_type(T, id, "Workspace")
          fs == nodes[ws].fullscreen_c
      IN IF ~Live(T, id) THEN r = Err("NodeNotFound", id, None)
         ELSE ws # None =>
                /\ r = Ok(IF fs = <<>> THEN None ELSE fs[Len(fs)])
                /\ \A i \in 1..Len(fs) :
                     (Live(T, fs[i]) /\ ancestor_of_type(T, fs[i], "Workspace") = ws) =>
                       (set_active_node(T, fs[i]).r.err = "BlockedByFullscreen"
                          <=> fs[i] # fs[Len(fs)])

\* two live nodes of one workspace are in its fullscreen list, and the id of
\* a removed node is asked for as well
C33_TwoStackedAndOneRemoved ==
  /\ ~panicked
  /\ \E id \in Uuids : ~Live(T, id)
  /\ \E id \in Uuids :
       /\ Live(T, id)
       /\ LET fs == FullscreenListOf(T, id)
          IN /\ Len(fs) = 2
             /\ fs[1] # fs[2]
             /\ Live(T, fs[1]) /\ Live(T, fs[2])
             /\ in_fullscreen_workspace(T, id) = Ok(fs[2])

\* the live nodes below the workspace
NodesOfWorkspace(t, ws) ==
  {m \in DOMAIN t.nodes : ancestor_of_type(t, m, "Workspace") = ws}

\* C34: after remove_view_or_container(n) succeeds, n is not in the
\* fullscreen list of the workspace that contained it, and set_active_node
\* on a node of that workspace is not refused with n as the holder.
C34_RemovedNodeLeavesFullscreenList ==
  ~panicked =>
    \A n \in NodeIndices : \A s \in {remove_view_or_container(T, n)} :
      (IsOk(s.r) /\ ~s.t.panicked) =>
        LET ws == ancestor_of_type(T, n, "Workspace")
        IN /\ Live(s.t, ws)
           /\ n \notin SeqToSet(s.t.nodes[ws].fullscreen_c)
           /\ \A m \in NodesOfWorkspace(s.t, ws) :
                set_active_node(s.t, m).r # Err("BlockedByFullscreen", m, n)

\* a node is the last entry of its workspace's fullscreen list and blocks the
\* focus on another node of the workspace, which can be focused once the
\* node is removed
C34_FocusFreedByRemoval ==
  /\ ~panicked
  /\ \E n \in NodeIndices : \E s \in {remove_view_or_container(T, n)} :
       /\ IsOk(s.r)
       /\ ~s.t.panicked
       /\ LET fs == FullscreenListOf(T, n)
          IN /\ fs # <<>>
             /\ fs[Len(fs)] = n
       /\ \E m \in NodesOfWorkspace(s.t, ancestor_of_type(T, n, "Workspace")) :
            /\ set_active_node(T, m).r = Err("BlockedByFullscreen", m, n)
            /\ IsOk(set_active_node(s.t, m).r)

\* the call changed the tree and returned success, and the validator does
\* not accept the tree it returned
LeftUnvalidated(s) ==
  /\ IsOk(s.r)
  /\ ~s.t.panicked
  /\ s.t # T
  /\ validate(s.t).panicked

\* C35: each of add_view, add_floating_view, add_container, add_output,
\* remove_view, remove_container and remove_workspace, when it changes the
\* tree and returns success, has run the validator on the tree it returns:
\* the returned tree passes validate, so the next mutation starts on a
\* validated tree.
C35_SuccessfulMutationValidated ==
  ~panicked =>
    /\ \A h \in ViewHandles :
         /\ ~LeftUnvalidated(add_view(T, h))
         /\ ~LeftUnvalidated(add_floating_view(T, h))
         /\ ~LeftUnvalidated(remove_view(T, h))
    /\ \A h \in OutputHandles : ~LeftUnvalidated(add_output(T, h))
    /\ \A n \in NodeIndices :
         /\ \A layout \in WrapLayouts :
              ~LeftUnvalidated(add_container(T, new_container(layout), n))
         /\ ~LeftUnvalidated(remove_container(T, n))
         /\ ~LeftUnvalidated(remove_container_traced(T, n))
         /\ ~LeftUnvalidated(remove_workspace(T, n))

\* the node is Root or hangs below Root through parent-child edges
RECURSIVE ReachesRoot(_, _)
ReachesRoot(t, n) ==
  \/ n = root_ix
  \/ /\ has_parent(t, n)
     /\ ReachesRoot(t, parent_of(t, n))

\* C36: every node that is resolved by its id is reachable from Root through
\* parent-child edges: no call leaves a View or a Container in the store
\* without a parent.
C36_ResolvableNodesReachRoot ==
  ~panicked => \A n \in DOMAIN nodes : ReachesRoot(T, n)

\* the call returned an error and the tree is not the one it was given
FailedButChanged(s, t) ==
  /\ ~IsOk(s.r)
  /\ ~s.t.panicked
  /\ s.t # t

\* C37: whenever remove_container(n) returns an error, the tree is as it
\* was before the call: no node has been removed and the active container
\* is the same.
C37_FailedRemoveContainerChangesNothing ==
  ~panicked =>
    \A n \in NodeIndices :
      /\ ~FailedButChanged(remove_container(T, n), T)
      /\ ~FailedButChanged(remove_container_traced(T, n), T)

\* C38: whenever container_in_dir(x, d) returns the pair (a, b),
\* container_in_dir(b, reverse(d)) returns the pair (b, a).
C38_ContainerInDirSymmetric ==
  ~panicked =>
    \A x \in Uuids : \A d \in Directions :
      \A r \in {container_in_dir(T, x, d)} :
        IsOk(r) => container_in_dir(T, r.b, reverse(d)) = OkPair(r.b, r.a)

\* the neighbour found is the neighbour of an ancestor of the node asked
\* for, and the way back from it ends at that ancestor
C38_WayBackEndsAtAncestor ==
  /\ ~panicked
  /\ \E x \in Uuids : \E d \in Directions :
       \E r \in {container_in_dir(T, x, d)} :
         /\ IsOk(r)
         /\ r.a # x
         /\ container_in_dir(T, r.b, reverse(d)) = OkPair(r.b, r.a)

\* the number of nodes from n up to the child of its workspace (or up to the
\* topmost node when no workspace is above n)
RECURSIVE DepthBelowWorkspace(_, _)
DepthBelowWorkspace(t, n) ==
  IF ~Live(t, n) \/ ~has_parent(t, n) \/ t.nodes[n].type = "Workspace" THEN 0
  ELSE 1 + DepthBelowWorkspace(t, parent_of(t, n))

\* a recursive call is made
Recursed == frame.op # "idle" /\ frame'.steps = frame.steps + 1

\* the invocations made one by one end where the operation ends
EndsAsTheCall ==
  /\ frame.pc = "return" =>
       LET s == ReturnAll(T, frame.pending)
       IN /\ s.t = frame.expect.t
          /\ s.r.err = frame.expect.r.err
  /\ frame.pc = "done" =>
       /\ T = frame.expect.t
       /\ frame.r.err = frame.expect.r.err
       /\ frame.op = "container_in_dir" => frame.r = frame.expect.r

\* C40: every call of container_in_dir and of remove_view_or_container comes
\* to an end, with the result or error of the call; each recursive call is
\* made on the parent of the current node, and no more recursive calls are
\* made than the node the call started on has levels below its workspace.
C40_RecursionsTerminate ==
  /\ (frame.op # "idle") ~> (frame.op = "idle")
  /\ [][Recursed => frame'.node = parent_of(frame.entry, frame.node)]_vars
  /\ [](frame.op # "idle" =>
          frame.steps <= DepthBelowWorkspace(frame.entry, frame.start))
  /\ []EndsAsTheCall

\* a removal has emptied and removed two containers above its node, one
\* recursive call each, and has returned
C40_TwoParentsRemoved ==
  /\ frame.op = "remove_view_or_container"
  /\ frame.pc = "done"
  /\ frame.steps = 2
  /\ IsOk(frame.r)
  /\ ~panicked

====
